---------------------------- MODULE Spec2Model ----------------------------
(***************************************************************************)
(* The two QASM-to-graph parsers of the repository:                        *)
(*   - QasmParser / convertQasmToGraphJson   (src/web/graph.js)            *)
(*   - QASM_Parser (getBits, getGates)       (src/web/parser.js)           *)
(* Text is a sequence of one-character strings, so that the splitting,     *)
(* trimming and regular-expression matching of the code are computed, not  *)
(* assumed.                                                                *)
(***************************************************************************)
EXTENDS Integers, Sequences, FiniteSets, TLC

(***************************************************************************)
(* Characters and the string primitives of JavaScript the code uses.       *)
(***************************************************************************)
Letters ==
  {"a","b","c","d","e","f","g","h","i","j","k","l","m",
   "n","o","p","q","r","s","t","u","v","w","x","y","z",
   "A","B","C","D","E","F","G","H","I","J","K","L","M",
   "N","O","P","Q","R","S","T","U","V","W","X","Y","Z"}

Digits == {"0","1","2","3","4","5","6","7","8","9"}

WordChars == Letters \cup Digits \cup {"_"}

\* the characters of \s and of String.prototype.trim that a string of a module
\* can hold: space, tab, line feed, carriage return, form feed, vertical tab,
\* U+00A0, U+FEFF and U+1680 (the class has U+2000..U+200A, U+2028, U+2029,
\* U+202F, U+205F and U+3000 besides, which no text of the model contains)
Whitespace ==
  {" ", "\t", "\n", "\r", "\f", "", " ", "﻿", " "}

\* null / undefined: a one-element sequence that no text (a sequence of single
\* characters) equals
Null == <<"null">>

\* !v for a string or null: null and the empty string are falsy
Falsy(v) == v = Null \/ v = <<>>

\* String.prototype.startsWith
StartsWith(s, p) == Len(s) >= Len(p) /\ SubSeq(s, 1, Len(p)) = p

\* String.prototype.includes, for a one-character needle
Includes(s, c) == \E i \in 1..Len(s) : s[i] = c

\* the last index j >= i - 1 such that s[i..j] lies in class (a greedy run)
RECURSIVE RunEnd(_, _, _)
RunEnd(s, i, class) ==
  IF i <= Len(s) /\ s[i] \in class THEN RunEnd(s, i + 1, class) ELSE i - 1

\* the first index j >= i - 1 such that s[j+1..i] lies in class (a run backwards)
RECURSIVE RunStart(_, _, _)
RunStart(s, i, class) ==
  IF i >= 1 /\ s[i] \in class THEN RunStart(s, i - 1, class) ELSE i + 1

\* the first index >= i of a character of class, or Len(s) + 1
RECURSIVE FirstOf(_, _, _)
FirstOf(s, i, class) ==
  IF i <= Len(s) /\ s[i] \notin class THEN FirstOf(s, i + 1, class) ELSE i

\* String.prototype.trim
Trim(s) ==
  LET first == RunEnd(s, 1, Whitespace) + 1
      last == RunStart(s, Len(s), Whitespace) - 1
  IN  IF first > last THEN <<>> ELSE SubSeq(s, first, last)

\* s.split(sep) where every separator is one character of seps
RECURSIVE SplitOn(_, _)
SplitOn(s, seps) ==
  LET i == FirstOf(s, 1, seps)
  IN  IF i > Len(s) THEN <<s>>
      ELSE <<SubSeq(s, 1, i - 1)>> \o SplitOn(SubSeq(s, i + 1, Len(s)), seps)

\* s.split(/[seps]+/): the separators are maximal runs of characters of seps
RECURSIVE SplitOnRuns(_, _)
SplitOnRuns(s, seps) ==
  LET i == FirstOf(s, 1, seps)
      j == RunEnd(s, i, seps)
  IN  IF i > Len(s) THEN <<s>>
      ELSE <<SubSeq(s, 1, i - 1)>> \o SplitOnRuns(SubSeq(s, j + 1, Len(s)), seps)

\* array.filter(Boolean) on an array of strings: the empty string is falsy
FilterNonEmpty(parts) == SelectSeq(parts, LAMBDA p : p # <<>>)

\* s.replace(/[chars]$/, ""): drops one trailing character of chars
ReplaceTrailing(s, chars) ==
  IF Len(s) > 0 /\ s[Len(s)] \in chars THEN SubSeq(s, 1, Len(s) - 1) ELSE s

\* line.split("//")[0]
RECURSIVE StripCommentFrom(_, _)
StripCommentFrom(line, i) ==
  IF i >= Len(line) THEN line
  ELSE IF line[i] = "/" /\ line[i + 1] = "/" THEN SubSeq(line, 1, i - 1)
  ELSE StripCommentFrom(line, i + 1)

StripComment(line) == StripCommentFrom(line, 1)

DigitValue(d) ==
  CASE d = "0" -> 0 [] d = "1" -> 1 [] d = "2" -> 2 [] d = "3" -> 3 [] d = "4" -> 4
    [] d = "5" -> 5 [] d = "6" -> 6 [] d = "7" -> 7 [] d = "8" -> 8 [] d = "9" -> 9

DigitChar(n) ==
  CASE n = 0 -> "0" [] n = 1 -> "1" [] n = 2 -> "2" [] n = 3 -> "3" [] n = 4 -> "4"
    [] n = 5 -> "5" [] n = 6 -> "6" [] n = 7 -> "7" [] n = 8 -> "8" [] n = 9 -> "9"

\* Number("0012") / parseInt("0012") on a string of decimal digits
RECURSIVE DecToNat(_)
DecToNat(ds) ==
  IF ds = <<>> THEN 0
  ELSE 10 * DecToNat(SubSeq(ds, 1, Len(ds) - 1)) + DigitValue(ds[Len(ds)])

\* `${n}` for a non-negative integer n
RECURSIVE NatToDec(_)
NatToDec(n) ==
  IF n < 10 THEN <<DigitChar(n)>> ELSE NatToDec(n \div 10) \o <<DigitChar(n % 10)>>

\* the regular expression /([a-zA-Z]+)\[(\d+)\]/ tried at position i
BitMatchAt(s, i) ==
  LET le == RunEnd(s, i, Letters)
      de == RunEnd(s, le + 2, Digits)
  IN  /\ i <= Len(s)
      /\ le >= i
      /\ le + 1 <= Len(s) /\ s[le + 1] = "["
      /\ de >= le + 2
      /\ de + 1 <= Len(s) /\ s[de + 1] = "]"

\* getBitInfo: the leftmost match, [register, index], or [null, null]
RECURSIVE FirstBitMatch(_, _)
FirstBitMatch(s, i) ==
  IF i > Len(s) THEN 0
  ELSE IF BitMatchAt(s, i) THEN i
  ELSE FirstBitMatch(s, i + 1)

getBitInfo(bit) ==
  LET i == FirstBitMatch(bit, 1)
      le == RunEnd(bit, i, Letters)
      de == RunEnd(bit, le + 2, Digits)
  IN  IF i = 0 THEN <<Null, Null>>
      ELSE <<SubSeq(bit, i, le), SubSeq(bit, le + 2, de)>>


\* array.join(" ")
RECURSIVE JoinSpace(_)
JoinSpace(parts) ==
  IF Len(parts) = 0 THEN <<>>
  ELSE IF Len(parts) = 1 THEN parts[1]
  ELSE parts[1] \o <<" ">> \o JoinSpace(Tail(parts))

\* text.split(/\r?\n/): a line feed, with the carriage return before it if any
SplitCrLf(text) ==
  LET raw == SplitOn(text, {"\n"})
  IN  [i \in 1..Len(raw) |->
         IF i < Len(raw) THEN ReplaceTrailing(raw[i], {"\r"}) ELSE raw[i]]

kwOPENQASM == <<"O","P","E","N","Q","A","S","M">>
kwInclude == <<"i","n","c","l","u","d","e">>
kwQreg == <<"q","r","e","g">>
kwCreg == <<"c","r","e","g">>
kwMeasure == <<"m","e","a","s","u","r","e">>

\* the id made with `++this.gateIdCounter` in the place of the post-increment
GateIdPreIncrement(n) == <<"g", "_">> \o NatToDec(n + 1)

\* `g_${n}`
GateId(n) == <<"g","_">> \o NatToDec(n)

(***************************************************************************)
(* State.                                                                  *)
(***************************************************************************)
VARIABLES
  parser,         \* which class is running: "QasmParser" or "QASM_Parser"
  qasmText,       \* QasmParser.qasmText / the content of QASM_Parser.qasmFile
  qasmCode,       \* QASM_Parser.qasmCode
  pc,             \* the position of the build
  lines,          \* the array the running for-of loop iterates
  pos,            \* index (from 1) of the next element of lines
  bits,           \* this.bits, an object: its entries in insertion order
  gateIdCounter,  \* this.gateIdCounter
  graphs,         \* the graph objects on the heap; graphs[1] is currentGraph
  timestamps,     \* this.timestamps: key -> reference (index) into graphs
  lineCounter,    \* the local lineCounter of _buildGraph / getGates
  gates,          \* QASM_Parser.gates
  links,          \* QASM_Parser.links
  returned,       \* <<v>> once convertQasmToGraphJson returned v, else <<>>
  thrown,         \* <<e>> once the build threw e, else <<>>
  accepted,       \* history: the instruction lines that produced a gate node
  changedAt,      \* history: lineCounter values at which currentGraph changed
  calls,          \* history: the finished calls, [text, outcome]
  cachedGraphData,     \* the viewer's cachedGraphData
  availableTimeSteps,  \* the viewer's availableTimeSteps
  currentTimeStep,     \* the viewer's currentTimeStep: <<>> is null, <<n>> is n
  animationTimerId,    \* the viewer's animationTimerId: <<>> is null, <<t>> is t
  resizeFrame,         \* the viewer's resizeFrame: <<>> is null
  intervals,           \* the window's interval timers that are set and not cleared
  timerSeq,            \* the number of setInterval calls made so far
  uiPhase,             \* "boot" until boot() has registered the handlers
  sliderListening,     \* the slider has handleTimeSliderInput as input listener
  lastEvent            \* history: the viewer event handled last

\* the variables of the viewer (the module-level `let`s of graph.js and the
\* window's timers)
uiVars ==
  <<cachedGraphData, availableTimeSteps, currentTimeStep, animationTimerId,
    resizeFrame, intervals, timerSeq, uiPhase, sliderListening, lastEvent>>

vars ==
  <<parser, qasmText, qasmCode, pc, lines, pos, bits, gateIdCounter, graphs,
    timestamps, lineCounter, gates, links, returned, thrown, accepted,
    changedAt, calls, cachedGraphData, availableTimeSteps, currentTimeStep,
    animationTimerId, resizeFrame, intervals, timerSeq, uiPhase,
    sliderListening, lastEvent>>

(***************************************************************************)
(* The bit registry: a JavaScript object keyed by bit id.  Assigning an    *)
(* existing key keeps its place in the enumeration order.                  *)
(***************************************************************************)
BitIndex(bs, id) ==
  IF \E i \in 1..Len(bs) : bs[i].id = id
  THEN CHOOSE i \in 1..Len(bs) : bs[i].id = id
  ELSE 0

\* this.bits[bit.id] = bit
SetBit(bs, bit) ==
  IF BitIndex(bs, bit.id) = 0 THEN Append(bs, bit)
  ELSE [bs EXCEPT ![BitIndex(bs, bit.id)] = bit]

(***************************************************************************)
(* QasmParser (src/web/graph.js).                                          *)
(***************************************************************************)

\* _getSanitizedLines
getSanitizedLines(text) ==
  LET raw == SplitCrLf(text)
  IN  FilterNonEmpty([i \in 1..Len(raw) |-> Trim(StripComment(raw[i]))])

\* /qreg\s+([a-zA-Z_]\w*)\[(\d+)\]/ (kw is qreg or creg) tried at position i
RegisterMatchAt(s, kw, i) ==
  LET w1 == i + Len(kw)
      we == RunEnd(s, w1, Whitespace)
      ne == RunEnd(s, we + 2, WordChars)
      de == RunEnd(s, ne + 2, Digits)
  IN  /\ i + Len(kw) - 1 <= Len(s)
      /\ SubSeq(s, i, i + Len(kw) - 1) = kw
      /\ we >= w1
      /\ we + 1 <= Len(s) /\ s[we + 1] \in Letters \cup {"_"}
      /\ ne + 1 <= Len(s) /\ s[ne + 1] = "["
      /\ de >= ne + 2
      /\ de + 1 <= Len(s) /\ s[de + 1] = "]"

\* line.match(/qreg\s+([a-zA-Z_]\w*)\[(\d+)\]/): <<registerName, sizeString>> or Null
RECURSIVE FirstRegisterMatch(_, _, _)
FirstRegisterMatch(s, kw, i) ==
  IF i > Len(s) THEN 0
  ELSE IF RegisterMatchAt(s, kw, i) THEN i
  ELSE FirstRegisterMatch(s, kw, i + 1)

RegisterMatch(s, kw) ==
  LET i == FirstRegisterMatch(s, kw, 1)
      we == RunEnd(s, i + Len(kw), Whitespace)
      ne == RunEnd(s, we + 2, WordChars)
      de == RunEnd(s, ne + 2, Digits)
  IN  IF i = 0 THEN Null
      ELSE <<SubSeq(s, we + 1, ne), SubSeq(s, ne + 2, de)>>

\* the loop `for (let i = 0; i < size; i += 1)` of _extractBits, from i on
RECURSIVE DeclareRegister(_, _, _, _, _)
DeclareRegister(bs, registerName, type, i, size) ==
  IF i >= size THEN bs
  ELSE LET bitId == registerName \o NatToDec(i)
       IN  DeclareRegister(
             SetBit(bs, [id |-> bitId, type |-> type, name |-> bitId,
                         lastGateConnected |-> Null]),
             registerName, type, i + 1, size)

\* the body of the loop of _extractBits for one line
ExtractBitsLine(bs, line) ==
  IF StartsWith(line, kwQreg)
  THEN LET match == RegisterMatch(line, kwQreg)
       IN  IF match # Null
           THEN DeclareRegister(bs, match[1], "qubit", 0, DecToNat(match[2]))
           ELSE bs
  ELSE IF StartsWith(line, kwCreg)
  THEN LET match == RegisterMatch(line, kwCreg)
       IN  IF match # Null
           THEN DeclareRegister(bs, match[1], "classical_bit", 0, DecToNat(match[2]))
           ELSE bs
  ELSE bs

\* _extractBits stopping at the first line that is not a header or a
\* declaration: declarations after an instruction are not seen
RECURSIVE ExtractBitsUntilInstruction(_, _, _)
ExtractBitsUntilInstruction(bs, ls, i) ==
  IF i > Len(ls) THEN bs
  ELSE IF ~(\/ StartsWith(ls[i], kwOPENQASM) \/ StartsWith(ls[i], kwInclude)
            \/ StartsWith(ls[i], kwQreg) \/ StartsWith(ls[i], kwCreg))
  THEN bs
  ELSE ExtractBitsUntilInstruction(ExtractBitsLine(bs, ls[i]), ls, i + 1)

\* _extractBits over lines[i..]
RECURSIVE ExtractBitsFrom(_, _, _)
ExtractBitsFrom(bs, ls, i) ==
  IF i > Len(ls) THEN bs
  ELSE ExtractBitsFrom(ExtractBitsLine(bs, ls[i]), ls, i + 1)

\* cloneGraph returning its argument: no copy is made
cloneGraphAlias(heap, ref) == [heap |-> heap, ref |-> ref]

\* cloneGraph: a new graph object whose nodes and edges are copies
cloneGraph(heap, ref) ==
  [heap |-> Append(heap,
              [nodes |-> [i \in 1..Len(heap[ref].nodes) |-> heap[ref].nodes[i]],
               edges |-> [i \in 1..Len(heap[ref].edges) |-> heap[ref].edges[i]]]),
   ref |-> Len(heap) + 1]

\* _registerGateOnBit without `bit.lastGateConnected = gateId`
registerGateOnBitNoAdvance(bs, bitId, gateId) ==
  LET i == BitIndex(bs, bitId)
  IN  IF i = 0
      THEN [threw |-> TRUE,
            error |-> [kind |-> "UnknownBit", arg |-> bitId],
            bits |-> bs, source |-> Null]
      ELSE [threw |-> FALSE,
            error |-> Null,
            bits |-> bs,
            source |-> IF bs[i].lastGateConnected # Null
                       THEN bs[i].lastGateConnected ELSE bitId]

\* _registerGateOnBit without `if (!bit) throw`: an unknown bit is created
registerGateOnBitLenient(bs, bitId, gateId) ==
  LET i == BitIndex(bs, bitId)
  IN  IF i = 0
      THEN [threw |-> FALSE,
            error |-> Null,
            bits |-> Append(bs, [id |-> bitId, type |-> "qubit", name |-> bitId,
                                 lastGateConnected |-> gateId]),
            source |-> bitId]
      ELSE [threw |-> FALSE,
            error |-> Null,
            bits |-> [bs EXCEPT ![i].lastGateConnected = gateId],
            source |-> IF bs[i].lastGateConnected # Null
                       THEN bs[i].lastGateConnected ELSE bitId]

\* _registerGateOnBit
registerGateOnBit(bs, bitId, gateId) ==
  LET i == BitIndex(bs, bitId)
  IN  IF i = 0
      THEN [threw |-> TRUE,
            error |-> [kind |-> "UnknownBit", arg |-> bitId],
            bits |-> bs, source |-> Null]
      ELSE [threw |-> FALSE,
            error |-> Null,
            bits |-> [bs EXCEPT ![i].lastGateConnected = gateId],
            source |-> IF bs[i].lastGateConnected # Null
                       THEN bs[i].lastGateConnected ELSE bitId]

\* what a handler leaves behind when it throws: no node, no edge
Throw(error, bs, counter, graph) ==
  [threw |-> TRUE, error |-> error, bits |-> bs, gateIdCounter |-> counter,
   graph |-> graph, graphUpdated |-> FALSE, gate |-> Null, operands |-> <<>>]

\* what a handler leaves behind when it returns true
Done(bs, counter, graph, gateId, operands) ==
  [threw |-> FALSE, error |-> Null, bits |-> bs, gateIdCounter |-> counter,
   graph |-> graph, graphUpdated |-> TRUE, gate |-> gateId, operands |-> operands]

\* what the loop body leaves behind when no handler is called
NoHandler(bs, counter, graph) ==
  [threw |-> FALSE, error |-> Null, bits |-> bs, gateIdCounter |-> counter,
   graph |-> graph, graphUpdated |-> FALSE, gate |-> Null, operands |-> <<>>]

\* the part shared by the one-operand handlers, after the bit token is read
OneOperand(node, bitToken, bs, counter, graph) ==
  LET info == getBitInfo(bitToken)
      gateId == GateId(counter)
      bitId == info[1] \o info[2]
      reg == registerGateOnBit(bs, bitId, gateId)
  IN  IF Falsy(info[1]) \/ Falsy(info[2])
      THEN Throw([kind |-> "UnrecognizedBitFormat", arg |-> bitToken],
                 bs, counter, graph)
      ELSE IF reg.threw
      THEN Throw(reg.error, reg.bits, counter + 1, graph)
      ELSE Done(reg.bits, counter + 1,
                [nodes |-> Append(graph.nodes, [id |-> gateId] @@ node),
                 edges |-> Append(graph.edges,
                                  [source |-> reg.source, target |-> gateId])],
                gateId, <<bitId>>)

\* the part shared by the two-operand handlers, after the bit tokens are read
TwoOperands(node, bitToken1, bitToken2, errorArg, errorKind, bs, counter, graph) ==
  LET info1 == getBitInfo(bitToken1)
      info2 == getBitInfo(bitToken2)
      gateId == GateId(counter)
      bitId1 == info1[1] \o info1[2]
      bitId2 == info2[1] \o info2[2]
      reg1 == registerGateOnBit(bs, bitId1, gateId)
      reg2 == registerGateOnBit(reg1.bits, bitId2, gateId)
  IN  IF Falsy(info1[1]) \/ Falsy(info1[2]) \/ Falsy(info2[1]) \/ Falsy(info2[2])
      THEN Throw([kind |-> errorKind, arg |-> errorArg], bs, counter, graph)
      ELSE IF reg1.threw
      THEN Throw(reg1.error, reg1.bits, counter + 1, graph)
      ELSE IF reg2.threw
      THEN Throw(reg2.error, reg2.bits, counter + 1, graph)
      ELSE Done(reg2.bits, counter + 1,
                [nodes |-> Append(graph.nodes, [id |-> gateId] @@ node),
                 edges |-> graph.edges
                             \o <<[source |-> reg1.source, target |-> gateId],
                                  [source |-> reg2.source, target |-> gateId]>>],
                gateId, <<bitId1, bitId2>>)

\* _handleSingleQubitParamGate
handleSingleQubitParamGate(parts, bs, counter, graph) ==
  OneOperand([type |-> "one_quit_gate", name |-> Trim(parts[1]),
              gate_info |-> Trim(parts[2])],
             ReplaceTrailing(Trim(parts[3]), {";"}), bs, counter, graph)

\* _handleTwoQubitParamGate
handleTwoQubitParamGate(parts, bs, counter, graph, originalLine) ==
  TwoOperands([type |-> "two_qubit_gate", name |-> Trim(parts[1]),
               gate_info |-> Trim(parts[2])],
              ReplaceTrailing(Trim(parts[3]), {",", ";"}),
              ReplaceTrailing(Trim(parts[4]), {";"}),
              originalLine, "UnrecognizedBitFormatInLine", bs, counter, graph)

\* _handleSingleQubitGate
handleSingleQubitGate(parts, bs, counter, graph) ==
  OneOperand([type |-> "single_qubit_gate", name |-> parts[1]],
             ReplaceTrailing(parts[2], {";"}), bs, counter, graph)

\* _handleTwoQubitGate
handleTwoQubitGate(parts, bs, counter, graph, originalLine) ==
  TwoOperands([type |-> "two_qubit_gate", name |-> parts[1]],
              ReplaceTrailing(parts[2], {",", ";"}),
              ReplaceTrailing(parts[3], {";"}),
              originalLine, "UnrecognizedBitFormatInLine", bs, counter, graph)

\* _handleMeasureGate wiring the quantum operand only
handleMeasureGateQuantumOnly(parts, bs, counter, graph) ==
  OneOperand([type |-> "measurement", name |-> kwMeasure],
             ReplaceTrailing(parts[2], {",", ";"}), bs, counter, graph)

\* _handleMeasureGate
handleMeasureGate(parts, bs, counter, graph) ==
  TwoOperands([type |-> "measurement", name |-> kwMeasure],
              ReplaceTrailing(parts[2], {",", ";"}),
              ReplaceTrailing(parts[4], {";"}),
              JoinSpace(parts), "UnrecognizedBitFormatInMeasurement",
              bs, counter, graph)


\* the skip test without its qreg and creg cases
IsMetaLineHeaderOnly(line) ==
  \/ StartsWith(line, kwOPENQASM)
  \/ StartsWith(line, kwInclude)

\* the test that makes _buildGraph and getGates skip a line
IsMetaLine(line) ==
  \/ StartsWith(line, kwOPENQASM)
  \/ StartsWith(line, kwInclude)
  \/ StartsWith(line, kwQreg)
  \/ StartsWith(line, kwCreg)

\* line.includes("(") && line.includes(")")
HasParens(line) == Includes(line, "(") /\ Includes(line, ")")

\* line.split(/[()]/)
ParenParts(line) == SplitOn(line, {"(", ")"})

\* line.split(/[,\s]+/).map(part => part.trim()).filter(Boolean)
PlainParts(line) ==
  LET raw == SplitOnRuns(line, Whitespace \cup {","})
  IN  FilterNonEmpty([i \in 1..Len(raw) |-> Trim(raw[i])])

\* the dispatch of _buildGraph without the test `parts[0] === "measure"`
QasmParserShapeAnyFour(line) ==
  LET pp == ParenParts(line)
      parts == PlainParts(line)
  IN  IF HasParens(line)
      THEN IF Len(pp) = 3 THEN "singleParam"
           ELSE IF Len(pp) = 4 THEN "twoParam"
           ELSE "none"
      ELSE IF Len(parts) = 2 THEN "single"
           ELSE IF Len(parts) = 3 THEN "two"
           ELSE IF Len(parts) = 4 THEN "measure"
           ELSE "none"

\* the handler _buildGraph calls for a line, by name, or "none"
QasmParserShape(line) ==
  LET pp == ParenParts(line)
      parts == PlainParts(line)
  IN  IF HasParens(line)
      THEN IF Len(pp) = 3 THEN "singleParam"
           ELSE IF Len(pp) = 4 THEN "twoParam"
           ELSE "none"
      ELSE IF Len(parts) = 2 THEN "single"
           ELSE IF Len(parts) = 3 THEN "two"
           ELSE IF Len(parts) = 4 /\ parts[1] = kwMeasure THEN "measure"
           ELSE "none"

\* a graph as a reader sees it: a node that is a reference to a bit object of
\* this.bits (QASM_Parser keeps the bit objects themselves in currentGraph.nodes)
\* shows that object's current fields
Deref(graph, bs) ==
  [nodes |-> [i \in 1..Len(graph.nodes) |->
                IF "ref" \in DOMAIN graph.nodes[i]
                THEN bs[BitIndex(bs, graph.nodes[i].ref)]
                ELSE graph.nodes[i]],
   edges |-> graph.edges]

\* the snapshot stored under key k, as a reader sees it now
Snapshot(k) == Deref(graphs[timestamps[k]], bits)

\* this.timestamps, as a reader sees it now
TimestampsValue == [k \in DOMAIN timestamps |-> Snapshot(k)]

\* this.timestamps[key] = ref
SetTimestamp(ts, key, ref) == (key :> ref) @@ ts

\* QasmParser.parse, first statement: this._extractBits()
extractBits ==
  /\ parser = "QasmParser" /\ pc = "parse"
  /\ bits' = ExtractBitsFrom(bits, lines, 1)
  /\ pc' = "_buildGraph"
  /\ UNCHANGED <<parser, qasmText, qasmCode, lines, pos, gateIdCounter, graphs,
                 timestamps, lineCounter, gates, links, returned, thrown,
                 accepted, changedAt, calls>>
  /\ UNCHANGED uiVars

\* _buildGraph up to its loop: currentGraph, timestamps[0], lineCounter
buildGraphStart ==
  /\ parser = "QasmParser" /\ pc = "_buildGraph"
  /\ LET currentGraph ==
           [nodes |-> [i \in 1..Len(bits) |->
                         [id |-> bits[i].id, type |-> bits[i].type,
                          name |-> bits[i].name]],
            edges |-> <<>>]
         clone == cloneGraph(<<currentGraph>>, 1)
     IN  /\ graphs' = clone.heap
         /\ timestamps' = SetTimestamp(timestamps, 0, clone.ref)
  /\ lineCounter' = 0
  /\ pos' = 1
  /\ pc' = "loop"
  /\ UNCHANGED <<parser, qasmText, qasmCode, lines, bits, gateIdCounter, gates,
                 links, returned, thrown, accepted, changedAt, calls>>
  /\ UNCHANGED uiVars

\* the key taken before `lineCounter += 1`
SnapshotKeyStale(counter) == counter - 1

\* the key under which the loop body stores the snapshot of a changed graph
SnapshotKey(counter) == counter

\* one iteration of the loop of _buildGraph whose handler (or none) left r
BuildGraphStep(r) ==
  /\ lineCounter' = lineCounter + 1
  /\ bits' = r.bits
  /\ gateIdCounter' = r.gateIdCounter
  /\ changedAt' = IF r.graph # graphs[1]
                  THEN changedAt \cup {lineCounter + 1} ELSE changedAt
  /\ IF r.threw
     THEN /\ pc' = "thrown"
          /\ thrown' = <<r.error>>
          /\ UNCHANGED <<graphs, timestamps, pos, accepted>>
     ELSE /\ IF r.graphUpdated
             THEN LET clone == cloneGraph([graphs EXCEPT ![1] = r.graph], 1)
                  IN  /\ graphs' = clone.heap
                      /\ timestamps' =
                           SetTimestamp(timestamps, SnapshotKey(lineCounter + 1),
                                        clone.ref)
                      /\ accepted' =
                           Append(accepted,
                                  [key |-> lineCounter + 1, gate |-> r.gate,
                                   operands |-> r.operands])
             ELSE /\ graphs' = [graphs EXCEPT ![1] = r.graph]
                  /\ UNCHANGED <<timestamps, accepted>>
          /\ pos' = pos + 1
          /\ UNCHANGED <<pc, thrown>>
  /\ UNCHANGED <<parser, qasmText, qasmCode, lines, gates, links, returned, calls>>
  /\ UNCHANGED uiVars

InBuildGraphLoop ==
  parser = "QasmParser" /\ pc = "loop" /\ pos <= Len(lines)

\* the loop of _buildGraph on a line it skips
buildGraphSkip ==
  /\ InBuildGraphLoop
  /\ IsMetaLine(lines[pos])
  /\ pos' = pos + 1
  /\ UNCHANGED <<parser, qasmText, qasmCode, pc, lines, bits, gateIdCounter,
                 graphs, timestamps, lineCounter, gates, links, returned,
                 thrown, accepted, changedAt, calls>>
  /\ UNCHANGED uiVars

\* the loop of _buildGraph on a line handed to _handleSingleQubitParamGate
buildGraphSingleParam ==
  /\ InBuildGraphLoop
  /\ ~IsMetaLine(lines[pos])
  /\ QasmParserShape(lines[pos]) = "singleParam"
  /\ BuildGraphStep(handleSingleQubitParamGate(
       ParenParts(lines[pos]), bits, gateIdCounter, graphs[1]))

\* the loop of _buildGraph on a line handed to _handleTwoQubitParamGate
buildGraphTwoParam ==
  /\ InBuildGraphLoop
  /\ ~IsMetaLine(lines[pos])
  /\ QasmParserShape(lines[pos]) = "twoParam"
  /\ BuildGraphStep(handleTwoQubitParamGate(
       ParenParts(lines[pos]), bits, gateIdCounter, graphs[1], lines[pos]))

\* the loop of _buildGraph on a line handed to _handleSingleQubitGate
buildGraphSingle ==
  /\ InBuildGraphLoop
  /\ ~IsMetaLine(lines[pos])
  /\ QasmParserShape(lines[pos]) = "single"
  /\ BuildGraphStep(handleSingleQubitGate(
       PlainParts(lines[pos]), bits, gateIdCounter, graphs[1]))

\* the loop of _buildGraph on a line handed to _handleTwoQubitGate
buildGraphTwo ==
  /\ InBuildGraphLoop
  /\ ~IsMetaLine(lines[pos])
  /\ QasmParserShape(lines[pos]) = "two"
  /\ BuildGraphStep(handleTwoQubitGate(
       PlainParts(lines[pos]), bits, gateIdCounter, graphs[1], lines[pos]))

\* the loop of _buildGraph on a line handed to _handleMeasureGate
buildGraphMeasure ==
  /\ InBuildGraphLoop
  /\ ~IsMetaLine(lines[pos])
  /\ QasmParserShape(lines[pos]) = "measure"
  /\ BuildGraphStep(handleMeasureGate(
       PlainParts(lines[pos]), bits, gateIdCounter, graphs[1]))

\* the loop of _buildGraph on a line no handler is called for
buildGraphNoMatch ==
  /\ InBuildGraphLoop
  /\ ~IsMetaLine(lines[pos])
  /\ QasmParserShape(lines[pos]) = "none"
  /\ BuildGraphStep(NoHandler(bits, gateIdCounter, graphs[1]))

\* the end of _buildGraph, `return this.timestamps` of parse, and the return of
\* convertQasmToGraphJson
parseReturn ==
  /\ parser = "QasmParser" /\ pc = "loop" /\ pos > Len(lines)
  /\ returned' = <<TimestampsValue>>
  /\ pc' = "returned"
  /\ UNCHANGED <<parser, qasmText, qasmCode, lines, pos, bits, gateIdCounter,
                 graphs, timestamps, lineCounter, gates, links, thrown,
                 accepted, changedAt, calls>>
  /\ UNCHANGED uiVars


(***************************************************************************)
(* QASM_Parser (src/web/parser.js).                                        *)
(***************************************************************************)

\* /qreg\s+\w+\[(\d+)\]/ (kw is qreg or creg) tried at position i
QasmRegisterMatchAt(s, kw, i) ==
  LET w1 == i + Len(kw)
      we == RunEnd(s, w1, Whitespace)
      ne == RunEnd(s, we + 1, WordChars)
      de == RunEnd(s, ne + 2, Digits)
  IN  /\ i + Len(kw) - 1 <= Len(s)
      /\ SubSeq(s, i, i + Len(kw) - 1) = kw
      /\ we >= w1
      /\ ne >= we + 1
      /\ ne + 1 <= Len(s) /\ s[ne + 1] = "["
      /\ de >= ne + 2
      /\ de + 1 <= Len(s) /\ s[de + 1] = "]"

\* line.match(/qreg\s+\w+\[(\d+)\]/): <<the digits>> or Null
RECURSIVE FirstQasmRegisterMatch(_, _, _)
FirstQasmRegisterMatch(s, kw, i) ==
  IF i > Len(s) THEN 0
  ELSE IF QasmRegisterMatchAt(s, kw, i) THEN i
  ELSE FirstQasmRegisterMatch(s, kw, i + 1)

QasmRegisterMatch(s, kw) ==
  LET i == FirstQasmRegisterMatch(s, kw, 1)
      we == RunEnd(s, i + Len(kw), Whitespace)
      ne == RunEnd(s, we + 1, WordChars)
      de == RunEnd(s, ne + 2, Digits)
  IN  IF i = 0 THEN Null
      ELSE <<SubSeq(s, ne + 2, de)>>

\* the loop `for (let i = 0; i < numQubits; i++)` of getBits, from i on
RECURSIVE QasmDeclare(_, _, _, _, _)
QasmDeclare(bs, prefix, type, i, n) ==
  IF i >= n THEN bs
  ELSE LET bitId == prefix \o NatToDec(i)
       IN  QasmDeclare(
             SetBit(bs, [id |-> bitId, type |-> type, name |-> bitId,
                         last_gate_connected |-> Null]),
             prefix, type, i + 1, n)

\* the body of the loop of getBits for one raw line
GetBitsLine(bs, rawLine) ==
  LET line == Trim(StripComment(rawLine))
      afterQreg ==
        IF StartsWith(line, kwQreg) /\ QasmRegisterMatch(line, kwQreg) # Null
        THEN QasmDeclare(bs, <<"q">>, "qubit", 0,
                         DecToNat(QasmRegisterMatch(line, kwQreg)[1]))
        ELSE bs
  IN  IF line = <<>> THEN bs
      ELSE IF StartsWith(line, kwCreg) /\ QasmRegisterMatch(line, kwCreg) # Null
      THEN QasmDeclare(afterQreg, <<"c">>, "classical_bit", 0,
                       DecToNat(QasmRegisterMatch(line, kwCreg)[1]))
      ELSE afterQreg

\* getBits over lines[i..]
RECURSIVE GetBitsFrom(_, _, _)
GetBitsFrom(bs, ls, i) ==
  IF i > Len(ls) THEN bs
  ELSE GetBitsFrom(GetBitsLine(bs, ls[i]), ls, i + 1)

\* a shallow copy in the place of structuredClone: the node array is new, the
\* bit objects in it are still those of this.bits
structuredCloneShallow(heap, ref, bs) ==
  [heap |-> Append(heap, heap[ref]), ref |-> Len(heap) + 1]

\* structuredClone(currentGraph): a deep copy, the bit objects included
structuredClone(heap, ref, bs) ==
  [heap |-> Append(heap, Deref(heap[ref], bs)), ref |-> Len(heap) + 1]

\* line.split(/[,\s]+/).filter(Boolean)
QasmPlainParts(line) == FilterNonEmpty(SplitOnRuns(line, Whitespace \cup {","}))

\* the branch getGates takes for a line, by name, or "none"
QasmShape(line) ==
  LET pp == ParenParts(line)
      parts == QasmPlainParts(line)
  IN  IF HasParens(line)
      THEN IF Len(pp) = 3 THEN "oneParam"
           ELSE IF Len(pp) = 4 THEN "twoParam"
           ELSE "none"
      ELSE IF Len(parts) = 2 THEN "single"
           ELSE IF Len(parts) = 3 THEN "two"
           ELSE "none"

\* what a branch of getGates leaves behind when it throws
QasmThrow(error, counter, gs, bs, ls, graph) ==
  [threw |-> TRUE, error |-> error, bits |-> bs, gateIdCounter |-> counter,
   gates |-> gs, links |-> ls, graph |-> graph, graphUpdated |-> FALSE,
   gate |-> Null, operands |-> <<>>]

\* a one-operand branch of getGates: gate is the object pushed on this.gates,
\* node the object pushed on currentGraph.nodes
QasmOneOperand(gate, node, bit, counter, gs, bs, ls, graph) ==
  LET info == getBitInfo(bit)
      gateId == GateId(counter)
      bitId == info[1] \o info[2]
      i == BitIndex(bs, bitId)
      source == IF bs[i].last_gate_connected # Null
                THEN bs[i].last_gate_connected ELSE bitId
      link == [source |-> source, target |-> gateId]
  IN  IF Falsy(info[1]) \/ Falsy(info[2])
      THEN QasmThrow([kind |-> "UnrecognizedBitFormat", arg |-> bit],
                     counter, gs, bs, ls, graph)
      ELSE IF i = 0
      THEN QasmThrow([kind |-> "TypeError", arg |-> bitId], counter + 1,
                     Append(gs, [id |-> gateId] @@ gate), bs, ls, graph)
      ELSE [threw |-> FALSE, error |-> Null,
            bits |-> [bs EXCEPT ![i].last_gate_connected = gateId],
            gateIdCounter |-> counter + 1,
            gates |-> Append(gs, [id |-> gateId] @@ gate),
            links |-> Append(ls, link),
            graph |-> [nodes |-> Append(graph.nodes, [id |-> gateId] @@ node),
                       edges |-> Append(graph.edges, link)],
            graphUpdated |-> TRUE, gate |-> gateId, operands |-> <<bitId>>]

\* a two-operand branch of getGates
QasmTwoOperands(gate, node, bit1, bit2, line, counter, gs, bs, ls, graph) ==
  LET info1 == getBitInfo(bit1)
      info2 == getBitInfo(bit2)
      gateId == GateId(counter)
      bitId1 == info1[1] \o info1[2]
      bitId2 == info2[1] \o info2[2]
      i1 == BitIndex(bs, bitId1)
      i2 == BitIndex(bs, bitId2)
      source1 == IF bs[i1].last_gate_connected # Null
                 THEN bs[i1].last_gate_connected ELSE bitId1
      source2 == IF bs[i2].last_gate_connected # Null
                 THEN bs[i2].last_gate_connected ELSE bitId2
      link1 == [source |-> source1, target |-> gateId]
      link2 == [source |-> source2, target |-> gateId]
  IN  IF Falsy(info1[1]) \/ Falsy(info1[2]) \/ Falsy(info2[1]) \/ Falsy(info2[2])
      THEN QasmThrow([kind |-> "UnrecognizedBitFormatInLine", arg |-> line],
                     counter, gs, bs, ls, graph)
      ELSE IF i1 = 0
      THEN QasmThrow([kind |-> "TypeError", arg |-> bitId1], counter + 1,
                     Append(gs, [id |-> gateId] @@ gate), bs, ls, graph)
      ELSE IF i2 = 0
      THEN QasmThrow([kind |-> "TypeError", arg |-> bitId2], counter + 1,
                     Append(gs, [id |-> gateId] @@ gate), bs, ls, graph)
      ELSE [threw |-> FALSE, error |-> Null,
            bits |-> [[bs EXCEPT ![i1].last_gate_connected = gateId]
                        EXCEPT ![i2].last_gate_connected = gateId],
            gateIdCounter |-> counter + 1,
            gates |-> Append(gs, [id |-> gateId] @@ gate),
            links |-> ls \o <<link1, link2>>,
            graph |-> [nodes |-> Append(graph.nodes, [id |-> gateId] @@ node),
                       edges |-> graph.edges \o <<link1, link2>>],
            graphUpdated |-> TRUE, gate |-> gateId,
            operands |-> <<bitId1, bitId2>>]

\* getGates, parts.length === 3 of a line with parentheses
getGatesOneParam(parts, counter, gs, bs, ls, graph) ==
  QasmOneOperand(
    [type |-> "one_quit_gate", name |-> parts[1], gate_info |-> parts[2]],
    [type |-> "one_quit_gate", name |-> parts[1], gate_info |-> parts[2]],
    ReplaceTrailing(Trim(parts[3]), {";"}), counter, gs, bs, ls, graph)

\* getGates, parts.length === 4 of a line with parentheses
getGatesTwoParam(parts, line, counter, gs, bs, ls, graph) ==
  QasmTwoOperands(
    [type |-> "two_qubit_gate", name |-> parts[1]],
    [type |-> "two_qubit_gate", name |-> parts[1], gate_info |-> parts[2]],
    ReplaceTrailing(Trim(parts[3]), {";"}),
    ReplaceTrailing(Trim(parts[4]), {";"}), line, counter, gs, bs, ls, graph)

\* getGates, parts.length === 2 of a line without parentheses
getGatesSingle(parts, counter, gs, bs, ls, graph) ==
  QasmOneOperand(
    [type |-> "single_qubit_gate", name |-> parts[1]],
    [type |-> "single_qubit_gate", name |-> parts[1]],
    ReplaceTrailing(Trim(parts[2]), {";"}), counter, gs, bs, ls, graph)

\* getGates, parts.length === 3 of a line without parentheses
getGatesTwo(parts, line, counter, gs, bs, ls, graph) ==
  QasmTwoOperands(
    [type |-> "two_qubit_gate", name |-> parts[1]],
    [type |-> "two_qubit_gate", name |-> parts[1]],
    ReplaceTrailing(Trim(parts[2]), {";"}),
    ReplaceTrailing(Trim(parts[3]), {";"}), line, counter, gs, bs, ls, graph)

\* getBits: reads the file and fills this.bits
getBits ==
  /\ parser = "QASM_Parser" /\ pc = "getBits"
  /\ qasmCode' = qasmText
  /\ bits' = GetBitsFrom(bits, SplitOn(qasmText, {"\n"}), 1)
  /\ pc' = "getGates"
  /\ UNCHANGED <<parser, qasmText, lines, pos, gateIdCounter, graphs,
                 timestamps, lineCounter, gates, links, returned, thrown,
                 accepted, changedAt, calls>>
  /\ UNCHANGED uiVars

\* getGates up to its loop: lineCounter, currentGraph, timestamps[0], lines
getGatesStart ==
  /\ parser = "QASM_Parser" /\ pc = "getGates"
  /\ lineCounter' = 0
  /\ LET currentGraph ==
           [nodes |-> [i \in 1..Len(bits) |-> [ref |-> bits[i].id]],
            edges |-> <<>>]
         clone == structuredClone(<<currentGraph>>, 1, bits)
     IN  /\ graphs' = clone.heap
         /\ timestamps' = SetTimestamp(timestamps, 0, clone.ref)
  /\ lines' = SplitOn(qasmCode, {"\n"})
  /\ pos' = 1
  /\ pc' = "loop"
  /\ UNCHANGED <<parser, qasmText, qasmCode, bits, gateIdCounter, gates, links,
                 returned, thrown, accepted, changedAt, calls>>
  /\ UNCHANGED uiVars

\* const line = rawLine.split('//')[0].trim()
QasmLine == Trim(StripComment(lines[pos]))

\* the first `continue` test only: headers and declarations are not skipped
QasmIsSkippedEmptyOnly(line) ==
  \/ line = <<>>
  \/ StartsWith(line, <<"/", "/">>)

\* the two `continue` tests at the head of the loop of getGates
QasmIsSkipped(line) ==
  \/ line = <<>>
  \/ StartsWith(line, <<"/", "/">>)
  \/ IsMetaLine(line)

InGetGatesLoop ==
  parser = "QASM_Parser" /\ pc = "loop" /\ pos <= Len(lines)

\* one iteration of the loop of getGates whose branch (or none) left r
GetGatesStep(r) ==
  /\ lineCounter' = lineCounter + 1
  /\ bits' = r.bits
  /\ gateIdCounter' = r.gateIdCounter
  /\ gates' = r.gates
  /\ links' = r.links
  /\ changedAt' = IF Deref(r.graph, r.bits) # Deref(graphs[1], bits)
                  THEN changedAt \cup {lineCounter + 1} ELSE changedAt
  /\ IF r.threw
     THEN /\ pc' = "thrown"
          /\ thrown' = <<r.error>>
          /\ UNCHANGED <<graphs, timestamps, pos, accepted>>
     ELSE /\ IF r.graphUpdated
             THEN LET clone ==
                        structuredClone([graphs EXCEPT ![1] = r.graph], 1, r.bits)
                  IN  /\ graphs' = clone.heap
                      /\ timestamps' =
                           SetTimestamp(timestamps, SnapshotKey(lineCounter + 1),
                                        clone.ref)
                      /\ accepted' =
                           Append(accepted,
                                  [key |-> lineCounter + 1, gate |-> r.gate,
                                   operands |-> r.operands])
             ELSE /\ graphs' = [graphs EXCEPT ![1] = r.graph]
                  /\ UNCHANGED <<timestamps, accepted>>
          /\ pos' = pos + 1
          /\ UNCHANGED <<pc, thrown>>
  /\ UNCHANGED <<parser, qasmText, qasmCode, lines, returned, calls>>
  /\ UNCHANGED uiVars

\* the loop of getGates on a line that is empty once its comment is stripped,
\* or that is a header or a declaration
getGatesSkip ==
  /\ InGetGatesLoop
  /\ QasmIsSkipped(QasmLine)
  /\ pos' = pos + 1
  /\ UNCHANGED <<parser, qasmText, qasmCode, pc, lines, bits, gateIdCounter,
                 graphs, timestamps, lineCounter, gates, links, returned,
                 thrown, accepted, changedAt, calls>>
  /\ UNCHANGED uiVars

IsGetGatesInstruction ==
  /\ InGetGatesLoop
  /\ ~QasmIsSkipped(QasmLine)

\* the loop of getGates on a parameterized line with three parts
getGatesLoopOneParam ==
  /\ IsGetGatesInstruction
  /\ QasmShape(QasmLine) = "oneParam"
  /\ GetGatesStep(getGatesOneParam(ParenParts(QasmLine), gateIdCounter, gates,
                                   bits, links, graphs[1]))

\* the loop of getGates on a parameterized line with four parts
getGatesLoopTwoParam ==
  /\ IsGetGatesInstruction
  /\ QasmShape(QasmLine) = "twoParam"
  /\ GetGatesStep(getGatesTwoParam(ParenParts(QasmLine), QasmLine, gateIdCounter,
                                   gates, bits, links, graphs[1]))

\* the loop of getGates on a plain line with two parts
getGatesLoopSingle ==
  /\ IsGetGatesInstruction
  /\ QasmShape(QasmLine) = "single"
  /\ GetGatesStep(getGatesSingle(QasmPlainParts(QasmLine), gateIdCounter, gates,
                                 bits, links, graphs[1]))

\* the loop of getGates on a plain line with three parts
getGatesLoopTwo ==
  /\ IsGetGatesInstruction
  /\ QasmShape(QasmLine) = "two"
  /\ GetGatesStep(getGatesTwo(QasmPlainParts(QasmLine), QasmLine, gateIdCounter,
                              gates, bits, links, graphs[1]))

\* the loop of getGates on a line no branch takes
getGatesLoopNoMatch ==
  /\ IsGetGatesInstruction
  /\ QasmShape(QasmLine) = "none"
  /\ GetGatesStep([threw |-> FALSE, error |-> Null, bits |-> bits,
                   gateIdCounter |-> gateIdCounter, gates |-> gates,
                   links |-> links, graph |-> graphs[1],
                   graphUpdated |-> FALSE, gate |-> Null, operands |-> <<>>])

\* the end of getGates
getGatesEnd ==
  /\ parser = "QASM_Parser" /\ pc = "loop" /\ pos > Len(lines)
  /\ pc' = "done"
  /\ UNCHANGED <<parser, qasmText, qasmCode, lines, pos, bits, gateIdCounter,
                 graphs, timestamps, lineCounter, gates, links, returned,
                 thrown, accepted, changedAt, calls>>
  /\ UNCHANGED uiVars


(***************************************************************************)
(* Inputs: texts made of a declaration block followed by at most MaxBody   *)
(* instruction lines, joined by line feeds.                                *)
(***************************************************************************)
\* OPENQASM 2.0;\r
LnOpenqasm ==
  <<"O","P","E","N","Q","A","S","M"," ","2",".","0",";","\r">>

\* qreg q[2];
LnQregQ2 ==
  <<"q","r","e","g"," ","q","[","2","]",";">>

\* creg c[1];
LnCregC1 ==
  <<"c","r","e","g"," ","c","[","1","]",";">>

\* qreg q[1];
LnQregQ1 ==
  <<"q","r","e","g"," ","q","[","1","]",";">>

\* qreg r[1];
LnQregR1 ==
  <<"q","r","e","g"," ","r","[","1","]",";">>

\* qreg a[1];
LnQregA1 ==
  <<"q","r","e","g"," ","a","[","1","]",";">>

\* creg a[2]; // flags
LnCregA2 ==
  <<"c","r","e","g"," ","a","[","2","]",";"," ","/","/"," ","f","l","a","g","s">>

\* h q[0];
LnH ==
  <<"h"," ","q","[","0","]",";">>

\* cx q[0],q[1];
LnCx ==
  <<"c","x"," ","q","[","0","]",",","q","[","1","]",";">>

\* cx q[0], q[0];
LnCxSame ==
  <<"c","x"," ","q","[","0","]",","," ","q","[","0","]",";">>

\* rz(pi/2) q[1];
LnRz ==
  <<"r","z","(","p","i","/","2",")"," ","q","[","1","]",";">>

\* cu(pi) q[0],)q[1];
LnCu ==
  <<"c","u","(","p","i",")"," ","q","[","0","]",",",")","q","[","1","]",";">>

\* measure q[1] -> c[0];
LnMeasure ==
  <<"m","e","a","s","u","r","e"," ","q","[","1","]"," ","-",">"," ","c","[","0","]",";">>

\* h x[0];
LnUnknown ==
  <<"h"," ","x","[","0","]",";">>

\* h q0;
LnMalformed ==
  <<"h"," ","q","0",";">>

\* ccx q[0],q[1],q[0];
LnCcx ==
  <<"c","c","x"," ","q","[","0","]",",","q","[","1","]",",","q","[","0","]",";">>

\* cu1(pi/2) q[0],q[1];
LnCu1 ==
  <<"c","u","1","(","p","i","/","2",")"," ","q","[","0","]",",","q","[","1","]",";">>

\* u(pi)(0) q[0];
LnU ==
  <<"u","(","p","i",")","(","0",")"," ","q","[","0","]",";">>

MaxBody == 3

DeclBlocks ==
  { <<>>,
    <<LnOpenqasm, LnQregQ2, LnCregC1>>,
    <<LnQregQ1, LnQregR1>>,
    <<LnQregA1, LnCregA2>> }

BodyLines ==
  { LnH, LnCx, LnCxSame, LnRz, LnCu, LnMeasure, LnUnknown, LnMalformed, LnCcx }

Bodies == UNION { [1..n -> BodyLines] : n \in 0..MaxBody }

\* lines.join("\n")
RECURSIVE JoinLines(_)
JoinLines(ls) ==
  IF Len(ls) = 0 THEN <<>>
  ELSE IF Len(ls) = 1 THEN ls[1]
  ELSE ls[1] \o <<"\n">> \o JoinLines(Tail(ls))

\* the example circuit of the specification: qreg q[2]; creg c[1]; h q[0];
\* cx q[0],q[1]; measure q[1] -> c[0]; one statement per line
ExampleInput == JoinLines(<<LnQregQ2, LnCregC1, LnH, LnCx, LnMeasure>>)

\* circuits with a parameterized two-operand instruction in its OpenQASM form
ParamTwoInputs ==
  { JoinLines(<<LnQregQ2, LnCregC1, LnCu1>>),
    JoinLines(<<LnQregQ2, LnCregC1, LnH, LnCu1, LnCx>>) }

\* circuits with lines that match no shape, plain and parenthesised, between
\* gates
NoMatchInputs ==
  { JoinLines(<<LnQregQ2, LnCregC1, LnU>>),
    JoinLines(<<LnQregQ2, LnCregC1, LnH, LnCcx, LnU, LnCx>>) }

\* circuits whose declarations come after instructions that use their bits
LateDeclarationInputs ==
  { JoinLines(<<LnH, LnQregQ1>>),
    JoinLines(<<LnH, LnQregQ2, LnCx, LnCregC1, LnMeasure>>),
    JoinLines(<<LnMeasure, LnRz, LnCregC1, LnQregQ2>>) }

Inputs ==
  { JoinLines(d \o b) : d \in DeclBlocks, b \in Bodies }
    \cup {ExampleInput} \cup ParamTwoInputs \cup NoMatchInputs
    \cup LateDeclarationInputs

\* the state after `new QasmParser(text)` or `new QASM_Parser(file)`: the fields
\* the constructor sets, and the rest of the model's state at its start
Constructed(p, text) ==
  /\ parser = p
  /\ qasmText = text
  /\ qasmCode = <<>>
  /\ lines = IF p = "QasmParser" THEN getSanitizedLines(text) ELSE <<>>
  /\ pc = IF p = "QasmParser" THEN "parse" ELSE "getBits"
  /\ pos = 1
  /\ bits = <<>>
  /\ gateIdCounter = 0
  /\ graphs = <<>>
  /\ timestamps = <<>>
  /\ lineCounter = 0
  /\ gates = <<>>
  /\ links = <<>>
  /\ returned = <<>>
  /\ thrown = <<>>
  /\ accepted = <<>>
  /\ changedAt = {}

\* a parsed JSON value as the viewer sees it: null, or an object whose entries
\* are its keys (each once), in the order of the file, with the snapshot each
\* holds (<<>> for null, else <<n>>, n the number of its nodes); id names the
\* value
NullData == [kind |-> "null", id |-> <<>>, entries |-> <<>>]

\* the module-level state of graph.js before boot() has run
ViewerLoaded ==
  /\ cachedGraphData = NullData
  /\ availableTimeSteps = <<>>
  /\ currentTimeStep = <<>>
  /\ animationTimerId = <<>>
  /\ resizeFrame = <<>>
  /\ intervals = {}
  /\ timerSeq = 0
  /\ uiPhase = "boot"
  /\ sliderListening = FALSE
  /\ lastEvent = [handler |-> "none", outcome |-> "none", turn |-> 0]

Init ==
  /\ \E p \in {"QasmParser", "QASM_Parser"} : \E text \in Inputs :
       Constructed(p, text)
  /\ calls = <<>>
  /\ ViewerLoaded

Next ==
  \/ extractBits
  \/ buildGraphStart
  \/ buildGraphSkip
  \/ buildGraphSingleParam
  \/ buildGraphTwoParam
  \/ buildGraphSingle
  \/ buildGraphTwo
  \/ buildGraphMeasure
  \/ buildGraphNoMatch
  \/ parseReturn
  \/ getBits
  \/ getGatesStart
  \/ getGatesSkip
  \/ getGatesLoopOneParam
  \/ getGatesLoopTwoParam
  \/ getGatesLoopSingle
  \/ getGatesLoopTwo
  \/ getGatesLoopNoMatch
  \/ getGatesEnd

Spec == Init /\ [][Next]_vars


(***************************************************************************)
(* Repeated calls of convertQasmToGraphJson, each on a parser of its own.  *)
(***************************************************************************)
MaxCalls == 3

CallBodies ==
  { <<>>,
    <<LnH, LnCx>>,
    <<LnRz, LnMeasure>>,
    <<LnCu, LnCcx, LnH>>,
    <<LnH, LnUnknown>>,
    <<LnCxSame, LnMalformed>> }

CallInputs ==
  { JoinLines(d \o b) : d \in {<<>>, <<LnOpenqasm, LnQregQ2, LnCregC1>>},
                        b \in CallBodies }

\* how the running call ended, for its caller
Outcome ==
  IF pc = "returned"
  THEN [ok |-> TRUE, value |-> returned[1]]
  ELSE [ok |-> FALSE, error |-> thrown[1]]

\* convertQasmToGraphJson with a gate-id counter shared by all parsers
convertQasmToGraphJsonSharedCounter ==
  /\ parser = "QasmParser" /\ pc \in {"returned", "thrown"}
  /\ Len(calls) + 1 < MaxCalls
  /\ calls' = Append(calls, [text |-> qasmText, outcome |-> Outcome])
  /\ \E text \in CallInputs :
       /\ qasmText' = text
       /\ lines' = getSanitizedLines(text)
  /\ bits' = <<>>
  /\ timestamps' = <<>>
  /\ graphs' = <<>>
  /\ lineCounter' = 0
  /\ pos' = 1
  /\ pc' = "parse"
  /\ returned' = <<>>
  /\ thrown' = <<>>
  /\ accepted' = <<>>
  /\ changedAt' = {}
  /\ UNCHANGED <<parser, qasmCode, gates, links, gateIdCounter>>
  /\ UNCHANGED uiVars

\* convertQasmToGraphJson called again, once the call before it has ended:
\* `new QasmParser(qasmText)` sets every field of the new parser
convertQasmToGraphJson ==
  /\ parser = "QasmParser" /\ pc \in {"returned", "thrown"}
  /\ Len(calls) + 1 < MaxCalls
  /\ calls' = Append(calls, [text |-> qasmText, outcome |-> Outcome])
  /\ \E text \in CallInputs :
       /\ qasmText' = text
       /\ lines' = getSanitizedLines(text)
  /\ bits' = <<>>
  /\ gateIdCounter' = 0
  /\ timestamps' = <<>>
  /\ graphs' = <<>>
  /\ lineCounter' = 0
  /\ pos' = 1
  /\ pc' = "parse"
  /\ returned' = <<>>
  /\ thrown' = <<>>
  /\ accepted' = <<>>
  /\ changedAt' = {}
  /\ UNCHANGED <<parser, qasmCode, gates, links>>
  /\ UNCHANGED uiVars

InitCalls ==
  /\ \E text \in CallInputs : Constructed("QasmParser", text)
  /\ calls = <<>>
  /\ ViewerLoaded

NextCalls ==
  \/ extractBits
  \/ buildGraphStart
  \/ buildGraphSkip
  \/ buildGraphSingleParam
  \/ buildGraphTwoParam
  \/ buildGraphSingle
  \/ buildGraphTwo
  \/ buildGraphMeasure
  \/ buildGraphNoMatch
  \/ parseReturn
  \/ convertQasmToGraphJson

SpecCalls == InitCalls /\ [][NextCalls]_vars


(***************************************************************************)
(* Properties.                                                             *)
(***************************************************************************)

\* the build ended without an error
Finished == pc \in {"returned", "done"}

BitIdSet == {bits[i].id : i \in 1..Len(bits)}

NodeSet(g) == {g.nodes[i] : i \in 1..Len(g.nodes)}

EdgeSet(g) == {g.edges[i] : i \in 1..Len(g.edges)}

HasEdge(g, a, b) == [source |-> a, target |-> b] \in EdgeSet(g)

\* the number of edges of g whose target is id
InDegree(g, id) == Cardinality({i \in 1..Len(g.edges) : g.edges[i].target = id})

\* the largest time-key
LastKey == CHOOSE k \in DOMAIN timestamps : \A j \in DOMAIN timestamps : j <= k

\* the graph a successful build ends with
FinalGraph == Snapshot(LastKey)

\* the i-th accepted instruction has bit b as an operand
UsesBit(i, b) ==
  \E j \in 1..Len(accepted[i].operands) : accepted[i].operands[j] = b

\* accepted instruction j is the next one after i that has bit b as an operand
NextUse(i, j, b) ==
  /\ i < j
  /\ UsesBit(i, b)
  /\ UsesBit(j, b)
  /\ \A k \in (i + 1)..(j - 1) : ~UsesBit(k, b)

\* accepted instruction i is the first one that has bit b as an operand
FirstUse(i, b) == UsesBit(i, b) /\ \A k \in 1..(i - 1) : ~UsesBit(k, b)

\* C1: last-writer chaining.  In a successful build, when G2 is the next
\* accepted instruction after G1 that has bit B as an operand, the graph has
\* the edge (G1 -> G2) and no edge (B -> G2); an edge whose source is B's own
\* id goes only to the first gate that uses B.
C1_LastWriterChaining ==
  Finished =>
    /\ \A b \in BitIdSet : \A i, j \in 1..Len(accepted) :
         NextUse(i, j, b) =>
           /\ HasEdge(FinalGraph, accepted[i].gate, accepted[j].gate)
           /\ ~HasEdge(FinalGraph, b, accepted[j].gate)
    /\ \A b \in BitIdSet : \A e \in EdgeSet(FinalGraph) :
         e.source = b =>
           \E i \in 1..Len(accepted) : FirstUse(i, b) /\ e.target = accepted[i].gate

\* a successful build in which a bit is used by three instructions in a row,
\* under either parser
C1_Witness ==
  /\ Finished
  /\ \E b \in BitIdSet : \E i, j, k \in 1..Len(accepted) :
       NextUse(i, j, b) /\ NextUse(j, k, b)

\* the operand count the claim gives for a node type
OperandCount(type) ==
  CASE type = "single_qubit_gate" -> 1
    [] type = "one_quit_gate" -> 1
    [] type = "two_qubit_gate" -> 2
    [] type = "measurement" -> 2
    [] OTHER -> 0

\* C2: a step that accepts an instruction line adds exactly one node to the live
\* graph, a gate node with the new gate id, and the number of edges that target
\* it is the operand count of its type (1, or 2 for two-operand gates and
\* measurements); the nodes and edges that were there stay.
C2_OneNodePerInstruction ==
  [][Len(accepted') = Len(accepted) + 1 =>
       LET old == graphs[1]
           new == graphs'[1]
           node == new.nodes[Len(new.nodes)]
       IN  /\ Len(new.nodes) = Len(old.nodes) + 1
           /\ SubSeq(new.nodes, 1, Len(old.nodes)) = old.nodes
           /\ node.id = accepted'[Len(accepted')].gate
           /\ node.id = GateId(gateIdCounter)
           /\ OperandCount(node.type) \in {1, 2}
           /\ InDegree(new, node.id) = OperandCount(node.type)
           /\ Len(new.edges) = Len(old.edges) + OperandCount(node.type)
           /\ SubSeq(new.edges, 1, Len(old.edges)) = old.edges]_vars

\* a successful build that accepted a measurement and a one-operand gate
C2_Witness ==
  /\ Finished
  /\ \E i, j \in 1..Len(FinalGraph.nodes) :
       /\ FinalGraph.nodes[i].type = "measurement"
       /\ FinalGraph.nodes[j].type \in {"single_qubit_gate", "one_quit_gate"}

\* C3 (as stated): for time-keys k1 < k2, every node of snapshot(k1), with all
\* of its attributes, and every edge of snapshot(k1) is in snapshot(k2).
C3_Monotonic ==
  \A k1, k2 \in DOMAIN timestamps :
    k1 < k2 =>
      /\ NodeSet(Snapshot(k1)) \subseteq NodeSet(Snapshot(k2))
      /\ EdgeSet(Snapshot(k1)) \subseteq EdgeSet(Snapshot(k2))

\* C4: the time-keys of a successful build are exactly 0 and the line-counter
\* values of the lines that changed the graph, and every accepted instruction
\* has a snapshot under its own line-counter value.
C4_TimeKeys ==
  Finished =>
    /\ DOMAIN timestamps = {0} \cup changedAt
    /\ \A i \in 1..Len(accepted) : accepted[i].key \in DOMAIN timestamps

\* a successful build whose keys are not 0..N: a line that matched no shape
\* came before an accepted one
C4_Witness ==
  /\ Finished
  /\ \E k \in DOMAIN timestamps : k > Len(accepted)
  /\ Len(accepted) >= 1

\* C5: in a successful build the snapshot under key 0 has the declared bits,
\* each once and nothing else, as its nodes, and no edges.
C5_SnapshotZero ==
  Finished =>
    /\ 0 \in DOMAIN timestamps
    /\ Len(Snapshot(0).nodes) = Len(bits)
    /\ \A i \in 1..Len(bits) :
         /\ Snapshot(0).nodes[i].id = bits[i].id
         /\ Snapshot(0).nodes[i].type = bits[i].type
         /\ Snapshot(0).nodes[i].type \in {"qubit", "classical_bit"}
    /\ Snapshot(0).edges = <<>>

\* a successful build with declared bits and two accepted instructions
C5_Witness == Finished /\ Len(bits) >= 2 /\ Len(accepted) >= 2

\* C6: a stored snapshot never changes and no key is written again: every step
\* keeps every key, the object it refers to, and that object's nodes and edges.
C6_SnapshotsImmutable ==
  [][\A k \in DOMAIN timestamps :
       /\ k \in DOMAIN timestamps'
       /\ timestamps'[k] = timestamps[k]
       /\ Snapshot(k)' = Snapshot(k)]_vars

\* three snapshots are stored and the bits they show were written since
C6_Witness ==
  /\ Cardinality(DOMAIN timestamps) >= 3
  /\ \E i \in 1..Len(accepted) : i >= 2 /\ UsesBit(i, accepted[1].operands[1])

\* the operand tokens of a line QasmParser recognizes, before `;` and `,` are
\* stripped from their ends
QasmParserOperandTokens(line) ==
  LET shape == QasmParserShape(line)
      pp == ParenParts(line)
      parts == PlainParts(line)
  IN  CASE shape = "singleParam" -> <<pp[3]>>
        [] shape = "twoParam" -> <<pp[3], pp[4]>>
        [] shape = "single" -> <<parts[2]>>
        [] shape = "two" -> <<parts[2], parts[3]>>
        [] shape = "measure" -> <<parts[2], parts[4]>>
        [] OTHER -> <<>>

\* every operand of the line is a well-formed bit reference and one of them
\* names a bit that is not declared
WellFormedUndeclared(line) ==
  LET toks == QasmParserOperandTokens(line)
  IN  /\ Len(toks) > 0
      /\ \A i \in 1..Len(toks) : getBitInfo(toks[i])[1] # Null
      /\ \E i \in 1..Len(toks) :
           getBitInfo(toks[i])[1] \o getBitInfo(toks[i])[2] \notin BitIdSet

\* C7: when QasmParser reaches an instruction whose operands are well formed
\* and one of which is not declared, the step throws the unknown-bit error, and
\* a build that threw has returned nothing to the caller of
\* convertQasmToGraphJson.
C7_UnknownBitFails ==
  [][/\ ( /\ parser = "QasmParser" /\ pc = "loop" /\ pos <= Len(lines)
          /\ ~IsMetaLine(lines[pos])
          /\ WellFormedUndeclared(lines[pos]) )
        => ( /\ pc' = "thrown"
             /\ thrown' # <<>>
             /\ thrown'[1].kind = "UnknownBit"
             /\ returned' = <<>> )
     /\ (pc' = "thrown" => returned' = <<>>)]_vars

\* `h x[0];` was reached with no register x and the build threw
C7_Witness ==
  /\ parser = "QasmParser"
  /\ pc = "thrown"
  /\ lines[pos] = LnUnknown
  /\ thrown[1] = [kind |-> "UnknownBit", arg |-> <<"x", "0">>]
  /\ Cardinality(DOMAIN timestamps) >= 2

\* the timestamp sequence the caller can read once the build has ended: the
\* value convertQasmToGraphJson returned, or the timestamps field of the
\* QASM_Parser object the caller holds (saveJSON writes it)
CallerTimestamps ==
  IF parser = "QasmParser"
  THEN IF returned = <<>> THEN <<>> ELSE returned[1]
  ELSE TimestampsValue

\* C8 (as stated): after a build threw, no timestamp sequence is available to
\* the caller, not even the snapshots stored before the failing line.
C8_AllOrNothing == pc = "thrown" => DOMAIN CallerTimestamps = {}

\* the calls that have ended, the running one included
FinishedCalls ==
  IF pc \in {"returned", "thrown"}
  THEN Append(calls, [text |-> qasmText, outcome |-> Outcome])
  ELSE calls

\* C9: two calls of convertQasmToGraphJson on the same text end the same way:
\* the same time-key mapping, or the same error.
C9_Deterministic ==
  \A i, j \in 1..Len(FinishedCalls) :
    FinishedCalls[i].text = FinishedCalls[j].text
      => FinishedCalls[i].outcome = FinishedCalls[j].outcome

\* the same text was converted twice, with gates, one call of another text in
\* between
C9_Witness ==
  /\ Len(FinishedCalls) = 3
  /\ FinishedCalls[1].text = FinishedCalls[3].text
  /\ FinishedCalls[1].text # FinishedCalls[2].text
  /\ FinishedCalls[3].outcome.ok
  /\ Cardinality(DOMAIN FinishedCalls[3].outcome.value) >= 3
  /\ FinishedCalls[2].outcome.ok
  /\ Cardinality(DOMAIN FinishedCalls[2].outcome.value) >= 2

\* the lines the declaration pass of the running parser looks at
DeclarationPassLines ==
  IF parser = "QasmParser" THEN getSanitizedLines(qasmText)
  ELSE LET raw == SplitOn(qasmText, {"\n"})
       IN  [i \in 1..Len(raw) |-> Trim(StripComment(raw[i]))]

\* the line is a well-formed declaration for the running parser
IsDeclaration(line) ==
  \/ /\ StartsWith(line, kwQreg)
     /\ IF parser = "QasmParser" THEN RegisterMatch(line, kwQreg) # Null
        ELSE QasmRegisterMatch(line, kwQreg) # Null
  \/ /\ StartsWith(line, kwCreg)
     /\ IF parser = "QasmParser" THEN RegisterMatch(line, kwCreg) # Null
        ELSE QasmRegisterMatch(line, kwCreg) # Null

\* the register a well-formed declaration declares: its kind, its size, and
\* the prefix the running parser gives the ids of its bits
Declaration(line) ==
  LET kw == IF StartsWith(line, kwQreg) THEN kwQreg ELSE kwCreg
      isQ == StartsWith(line, kwQreg)
  IN  IF parser = "QasmParser"
      THEN [kind |-> IF isQ THEN "qubit" ELSE "classical_bit",
            prefix |-> RegisterMatch(line, kw)[1],
            size |-> DecToNat(RegisterMatch(line, kw)[2])]
      ELSE [kind |-> IF isQ THEN "qubit" ELSE "classical_bit",
            prefix |-> IF isQ THEN <<"q">> ELSE <<"c">>,
            size |-> DecToNat(QasmRegisterMatch(line, kw)[1])]

\* the sum of the sizes declared by ls[i..]
RECURSIVE DeclaredSizeSum(_, _)
DeclaredSizeSum(ls, i) ==
  IF i > Len(ls) THEN 0
  ELSE (IF IsDeclaration(ls[i]) THEN Declaration(ls[i]).size ELSE 0)
         + DeclaredSizeSum(ls, i + 1)

\* the ids the declarations of the given kind among ls give their bits
DeclaredIds(ls, kind) ==
  UNION { IF IsDeclaration(ls[i]) /\ Declaration(ls[i]).kind = kind
          THEN { Declaration(ls[i]).prefix \o NatToDec(n) :
                   n \in 0..(Declaration(ls[i]).size - 1) }
          ELSE {} : i \in 1..Len(ls) }

\* C10 (as stated): after the declaration pass the registry holds as many bits
\* as the declared register sizes add up to, and no id of a qubit is the id of
\* a classical bit.
C10_BitCount ==
  pc \in {"_buildGraph", "getGates"} =>
    /\ Len(bits) = DeclaredSizeSum(DeclarationPassLines, 1)
    /\ DeclaredIds(DeclarationPassLines, "qubit")
         \cap DeclaredIds(DeclarationPassLines, "classical_bit") = {}

\* the ids of the nodes of g, in order
NodeIds(g) == [i \in 1..Len(g.nodes) |-> g.nodes[i].id]

\* the edges of g whose target is id
InEdges(g, id) == {e \in EdgeSet(g) : e.target = id}

\* C11: for the example circuit convertQasmToGraphJson returns the time-keys
\* {0,1,2,3}; snapshot 1 has the nodes q0, q1, c0, g_0 and the single edge
\* (q0, g_0); snapshot 3 has the node g_2 of type measurement whose in-edges
\* are (g_1, g_2) and (c0, g_2).
C11_Example ==
  (parser = "QasmParser" /\ qasmText = ExampleInput) =>
    /\ pc # "thrown"
    /\ pc = "returned" =>
         LET ts == returned[1]
             q0 == <<"q", "0">>
             q1 == <<"q", "1">>
             c0 == <<"c", "0">>
         IN  /\ DOMAIN ts = {0, 1, 2, 3}
             /\ NodeIds(ts[1]) = <<q0, q1, c0, GateId(0)>>
             /\ ts[1].edges = <<[source |-> q0, target |-> GateId(0)]>>
             /\ \E n \in NodeSet(ts[3]) :
                  n.id = GateId(2) /\ n.type = "measurement"
             /\ InEdges(ts[3], GateId(2)) =
                  { [source |-> GateId(1), target |-> GateId(2)],
                    [source |-> c0, target |-> GateId(2)] }

\* convertQasmToGraphJson returned for the example circuit
C11_Witness ==
  /\ parser = "QasmParser" /\ qasmText = ExampleInput /\ pc = "returned"
  /\ Len(accepted) = 3

\* the input has no instruction line: every line is empty, a header or a
\* declaration
OnlyHeaderAndDeclarations ==
  \A i \in 1..Len(DeclarationPassLines) :
    \/ DeclarationPassLines[i] = <<>>
    \/ \E kw \in {kwOPENQASM, kwInclude, kwQreg, kwCreg} :
         StartsWith(DeclarationPassLines[i], kw)

\* C12: a build over an empty input, or over header and declaration lines
\* only, ends without an error; its mapping has the single key 0, whose
\* snapshot has no edges and has exactly the declared bits as its nodes.
C12_DeclarationsOnly ==
  (pc \in {"thrown", "returned", "done"} /\ OnlyHeaderAndDeclarations) =>
    /\ pc # "thrown"
    /\ Finished =>
         /\ DOMAIN CallerTimestamps = {0}
         /\ CallerTimestamps[0].edges = <<>>
         /\ NodeIds(CallerTimestamps[0]) = [i \in 1..Len(bits) |-> bits[i].id]
         /\ Cardinality(BitIdSet) = Len(bits)
         /\ BitIdSet = DeclaredIds(DeclarationPassLines, "qubit")
                         \cup DeclaredIds(DeclarationPassLines, "classical_bit")
         /\ \A n \in NodeSet(CallerTimestamps[0]) :
              n.type \in {"qubit", "classical_bit"}

\* a build over a header and two declarations ended
C12_Witness ==
  /\ Finished
  /\ OnlyHeaderAndDeclarations
  /\ Len(DeclarationPassLines) >= 3
  /\ Len(bits) >= 3

\* the line is one the instruction pass considers: not empty once its comment
\* is stripped, and not a header or a declaration
IsConsidered(line) ==
  /\ Trim(StripComment(line)) # <<>>
  /\ \A kw \in {kwOPENQASM, kwInclude, kwQreg, kwCreg} :
       ~StartsWith(Trim(StripComment(line)), kw)

\* the number of considered lines among the first n lines of the loop
ConsideredUpTo(n) == Cardinality({i \in 1..n : IsConsidered(lines[i])})

\* C13 (as stated): the n-th graph-changing instruction line is stored under
\* key n, so the keys of a successful build are 0, 1, ..., N with no gap.
C13_KeysContiguous ==
  Finished =>
    /\ \A n \in 1..Len(accepted) : accepted[n].key = n
    /\ DOMAIN timestamps = 0..Len(accepted)

\* C13 (amended): a snapshot stored by the instruction pass gets as its key the
\* number of considered instruction lines processed so far, the line that
\* changed the graph included and the lines that matched no shape included;
\* keys are stored in increasing order, and key 0 before the first line.
C13_KeyIsLineCount ==
  [][\A k \in DOMAIN timestamps' \ DOMAIN timestamps :
       IF k = 0 THEN pc \in {"_buildGraph", "getGates"}
       ELSE /\ pc = "loop"
            /\ k = ConsideredUpTo(pos)
            /\ \A j \in DOMAIN timestamps : j < k]_vars

\* a successful build whose keys have a gap between two stored snapshots
C13_Witness ==
  /\ Finished
  /\ Len(accepted) >= 2
  /\ \E k \in DOMAIN timestamps :
       /\ k + 1 \notin DOMAIN timestamps
       /\ \E j \in DOMAIN timestamps : j > k + 1

\* C14: an iteration of the instruction loop adds one to the line counter when
\* its line is a considered one (not empty once its comment is stripped, not
\* starting with OPENQASM, include, qreg or creg), whether or not the line
\* matches a gate shape, and leaves the counter alone on a skipped line; the
\* snapshot of an accepted line is stored under the counter value reached at
\* that line and shows the live graph.
C14_LineCounter ==
  [][/\ (pc = "loop" /\ pos <= Len(lines)) =>
          lineCounter' =
            lineCounter + (IF IsConsidered(lines[pos]) THEN 1 ELSE 0)
     /\ \A k \in DOMAIN timestamps' \ DOMAIN timestamps :
          k # 0 => k = lineCounter' /\ Len(accepted') = Len(accepted) + 1
     /\ Len(accepted') = Len(accepted) + 1 =>
          /\ lineCounter' \in DOMAIN timestamps'
          /\ Deref(graphs'[timestamps'[lineCounter']], bits')
               = Deref(graphs'[1], bits')]_vars

\* the loop has skipped a line, counted a line that matched no shape, and
\* stored the snapshot of the line it has just accepted
C14_Witness ==
  /\ pc = "loop"
  /\ Len(accepted) >= 1
  /\ accepted[Len(accepted)].key = lineCounter
  /\ lineCounter > Len(accepted)
  /\ pos - 1 > lineCounter

\* the position of the node with the given id among the nodes of g, 0 if none
NodeIndex(g, id) ==
  IF \E i \in 1..Len(g.nodes) : g.nodes[i].id = id
  THEN CHOOSE i \in 1..Len(g.nodes) : g.nodes[i].id = id
  ELSE 0

\* id is the id of a gate node of g
IsGateNode(g, id) ==
  /\ NodeIndex(g, id) # 0
  /\ g.nodes[NodeIndex(g, id)].type \notin {"qubit", "classical_bit"}

\* C15 (as stated): every edge of every snapshot goes from a declared bit, or
\* from a gate node created strictly before its target, to a gate node of the
\* same snapshot; no edge has one gate as its source and its target.
C15_EdgeEndpoints ==
  \A k \in DOMAIN timestamps :
    \A e \in EdgeSet(Snapshot(k)) :
      /\ IsGateNode(Snapshot(k), e.target)
      /\ e.source # e.target
      /\ \/ e.source \in BitIdSet
         \/ /\ IsGateNode(Snapshot(k), e.source)
            /\ NodeIndex(Snapshot(k), e.source) < NodeIndex(Snapshot(k), e.target)

\* the last writer the registry records for the bit with the given id
LastWriter(bs, id) ==
  IF parser = "QasmParser"
  THEN bs[BitIndex(bs, id)].lastGateConnected
  ELSE bs[BitIndex(bs, id)].last_gate_connected

\* the source a sequential, left-to-right resolution gives operand j of an
\* instruction whose gate is the given one: the gate itself when an earlier
\* operand of the instruction named the same bit, else the bit's last writer
\* before the instruction, else the bit's own id
SequentialSource(bs, operands, j, gate) ==
  IF \E i \in 1..(j - 1) : operands[i] = operands[j] THEN gate
  ELSE IF LastWriter(bs, operands[j]) # Null THEN LastWriter(bs, operands[j])
  ELSE operands[j]

\* C16 (as stated): in both parsers an accepted instruction resolves its
\* operands one after the other, left to right: it adds exactly one edge per
\* operand, whose source is the bit's last writer at that moment (the bit's
\* own id when it has none), the last writer being set to the new gate before
\* the next operand is resolved.
C16_SequentialResolution ==
  [][Len(accepted') = Len(accepted) + 1 =>
       LET a == accepted'[Len(accepted')]
           old == graphs[1].edges
           new == graphs'[1].edges
       IN  /\ Len(new) = Len(old) + Len(a.operands)
           /\ \A j \in 1..Len(a.operands) :
                /\ new[Len(old) + j] =
                     [source |-> SequentialSource(bits, a.operands, j, a.gate),
                      target |-> a.gate]
                /\ LastWriter(bits', a.operands[j]) = a.gate]_vars

\* the number of positions of s that hold the character c
CountOf(s, c) == Cardinality({i \in 1..Len(s) : s[i] = c})

\* the line has the parameterized two-operand form: a gate name, one
\* parenthesised parameter group, then two bit references separated by a comma
IsParamTwoOperandForm(line) ==
  /\ CountOf(line, "(") = 1 /\ CountOf(line, ")") = 1
  /\ FirstOf(line, 1, {"("}) > 1
  /\ FirstOf(line, 1, {"("}) < FirstOf(line, 1, {")"})
  /\ LET rest == SubSeq(line, FirstOf(line, 1, {")"}) + 1, Len(line))
         ops == SplitOn(rest, {","})
     IN  /\ Len(ops) = 2
         /\ getBitInfo(ops[1])[1] # Null
         /\ getBitInfo(ops[2])[1] # Null

\* the bit ids the two operands of a line of that form name
ParamTwoOperandIds(line) ==
  LET rest == SubSeq(line, FirstOf(line, 1, {")"}) + 1, Len(line))
      ops == SplitOn(rest, {","})
  IN  <<getBitInfo(ops[1])[1] \o getBitInfo(ops[1])[2],
        getBitInfo(ops[2])[1] \o getBitInfo(ops[2])[2]>>

\* C17 (as stated): an instruction line in the parameterized two-operand form
\* whose bits are declared is accepted as a two-operand gate: its node has the
\* type two_qubit_gate and two in-edges, and it becomes the last writer of
\* both operand bits.
C17_ParamTwoOperand ==
  [][(/\ pc = "loop" /\ pos <= Len(lines)
      /\ IsParamTwoOperandForm(Trim(StripComment(lines[pos])))
      /\ \A j \in 1..2 :
           ParamTwoOperandIds(Trim(StripComment(lines[pos])))[j] \in BitIdSet)
       => LET ids == ParamTwoOperandIds(Trim(StripComment(lines[pos])))
              g == graphs'[1]
          IN  /\ Len(accepted') = Len(accepted) + 1
              /\ g.nodes[Len(g.nodes)].id = accepted'[Len(accepted')].gate
              /\ g.nodes[Len(g.nodes)].type = "two_qubit_gate"
              /\ InDegree(g, accepted'[Len(accepted')].gate) = 2
              /\ \A j \in 1..2 :
                   LastWriter(bits', ids[j]) = accepted'[Len(accepted')].gate]_vars

\* the characters that separate the tokens of a plain line
TokenSeparators == Whitespace \cup {","}

\* the number of tokens of a plain line
TokenCount(line) ==
  Cardinality({i \in 1..Len(line) :
                 /\ line[i] \notin TokenSeparators
                 /\ (i = 1 \/ line[i - 1] \in TokenSeparators)})

\* the first token of the line is `measure`
FirstTokenIsMeasure(line) ==
  LET first == RunEnd(line, 1, TokenSeparators) + 1
      last == FirstOf(line, first, TokenSeparators) - 1
  IN  SubSeq(line, first, last) = kwMeasure

\* the line matches no recognized shape, as the claim words it
MatchesNoShape(line) ==
  IF CountOf(line, "(") > 0 /\ CountOf(line, ")") > 0
  THEN CountOf(line, "(") + CountOf(line, ")") + 1 \notin {3, 4}
  ELSE /\ TokenCount(line) \notin {2, 3}
       /\ ~(TokenCount(line) = 4 /\ FirstTokenIsMeasure(line))

\* line i of the loop is a considered line that matches no recognized shape
IsNoMatchLine(i) ==
  /\ IsConsidered(lines[i])
  /\ MatchesNoShape(Trim(StripComment(lines[i])))

\* C18: an iteration on a considered line that matches no recognized shape
\* raises no error and changes nothing but the line counter: the live nodes
\* and edges, every bit's last writer, the gate-id counter and the stored
\* snapshots stay as they were.
C18_NoMatchFrame ==
  [][(pc = "loop" /\ pos <= Len(lines) /\ IsNoMatchLine(pos)) =>
       /\ pc' = "loop" /\ thrown' = thrown
       /\ lineCounter' = lineCounter + 1
       /\ Deref(graphs'[1], bits') = Deref(graphs[1], bits)
       /\ bits' = bits
       /\ gateIdCounter' = gateIdCounter
       /\ timestamps' = timestamps
       /\ \A k \in DOMAIN timestamps : Snapshot(k)' = Snapshot(k)
       /\ gates' = gates /\ links' = links]_vars

\* the loop has passed a plain line and a parenthesised line that matched no
\* shape, after it had accepted a gate, and has accepted a gate since
C18_Witness ==
  /\ pc = "loop"
  /\ \E i, j \in 1..(pos - 1) :
       /\ IsNoMatchLine(i) /\ ~HasParens(lines[i])
       /\ IsNoMatchLine(j) /\ HasParens(lines[j])
  /\ Len(accepted) >= 2
  /\ lineCounter >= 4

\* the node is a gate node
IsGate(n) == n.type \notin {"qubit", "classical_bit"}

\* the gate nodes of the live graph, in the order they were added
LiveGateNodes == SelectSeq(Deref(graphs[1], bits).nodes, IsGate)

\* C19: at every line boundary of a build that has not failed, and at its end,
\* the live graph has as many gate nodes as the gate-id counter says, the k-th
\* of them has the id g_(k-1), and it is the node of the k-th accepted
\* instruction line: ids are unique, in processing order, without gaps.
C19_GateIds ==
  pc \in {"loop", "returned", "done"} =>
    /\ Len(LiveGateNodes) = gateIdCounter
    /\ Len(accepted) = gateIdCounter
    /\ \A k \in 1..Len(LiveGateNodes) :
         /\ LiveGateNodes[k].id = <<"g", "_">> \o NatToDec(k - 1)
         /\ accepted[k].gate = LiveGateNodes[k].id

\* a successful build with gates before and after two lines that made none
C19_Witness ==
  /\ Finished
  /\ gateIdCounter >= 2
  /\ lineCounter >= gateIdCounter + 2
  /\ accepted[Len(accepted)].key = lineCounter

\* the ids the declarations of the input, wherever they stand, give their bits
AllDeclaredIds ==
  DeclaredIds(DeclarationPassLines, "qubit")
    \cup DeclaredIds(DeclarationPassLines, "classical_bit")

\* the ids and types of the bits of a registry, in order
RegistryKeys(bs) == [i \in 1..Len(bs) |-> [id |-> bs[i].id, type |-> bs[i].type]]

\* C20: every declaration line, wherever it stands in the input, is consumed
\* before the first instruction is processed: when snapshot 0 is stored its
\* nodes are the bits of all declarations; an instruction is never refused for
\* a bit that some line of the input declares, even a later one; and once the
\* instruction loop runs no bit is added to or removed from the registry.
C20_DeclarationsFirst ==
  [][/\ (0 \notin DOMAIN timestamps /\ 0 \in DOMAIN timestamps') =>
          /\ {n.id : n \in NodeSet(Snapshot(0)')} = AllDeclaredIds
          /\ BitIdSet' = AllDeclaredIds
          /\ pc' = "loop" /\ lineCounter' = 0 /\ accepted' = <<>>
     /\ pc = "loop" => RegistryKeys(bits') = RegistryKeys(bits)
     /\ (pc = "loop" /\ pc' = "thrown"
           /\ thrown'[1].kind \in {"UnknownBit", "TypeError"}) =>
          thrown'[1].arg \notin AllDeclaredIds]_vars

\* a successful build whose first line is an instruction that was accepted,
\* its bits being declared further down, with another instruction after them
C20_Witness ==
  /\ Finished
  /\ Len(accepted) >= 2
  /\ IsConsidered(DeclarationPassLines[1])
  /\ accepted[1].key = 1
  /\ \A j \in 1..Len(accepted[1].operands) :
       accepted[1].operands[j] \in AllDeclaredIds

\* the ids of the bit references letters[digits] written in s from position i
\* on, left to right
RECURSIVE BitRefsFrom(_, _)
BitRefsFrom(s, i) ==
  IF i > Len(s) THEN <<>>
  ELSE IF BitMatchAt(s, i)
  THEN LET le == RunEnd(s, i, Letters)
           de == RunEnd(s, le + 2, Digits)
       IN  <<SubSeq(s, i, le) \o SubSeq(s, le + 2, de)>> \o BitRefsFrom(s, de + 2)
  ELSE BitRefsFrom(s, i + 1)

\* the line of the loop that was counted as the k-th considered line
LineOfKey(k) ==
  lines[CHOOSE i \in 1..Len(lines) :
          IsConsidered(lines[i]) /\ ConsideredUpTo(i) = k]

\* the accepted instructions so far whose line names bit b as an operand
UsersOf(b) ==
  {n \in 1..Len(accepted) :
     \E j \in 1..Len(BitRefsFrom(LineOfKey(accepted[n].key), 1)) :
       BitRefsFrom(LineOfKey(accepted[n].key), 1)[j] = b}

\* C22 (as stated): at every line boundary each bit's last writer is none
\* exactly when no accepted instruction so far had the bit as an operand, and
\* otherwise is the id of the gate node of the latest accepted instruction that
\* had the bit as an operand, a node of the live graph.
C22_LastWriterInvariant ==
  pc \in {"loop", "returned", "done"} =>
    \A b \in BitIdSet :
      IF UsersOf(b) = {} THEN LastWriter(bits, b) = Null
      ELSE LET n == CHOOSE m \in UsersOf(b) : \A o \in UsersOf(b) : o <= m
           IN  /\ LastWriter(bits, b) = accepted[n].gate
               /\ IsGateNode(Deref(graphs[1], bits), accepted[n].gate)

\* the number of edges of g whose source is id
OutDegree(g, id) == Cardinality({i \in 1..Len(g.edges) : g.edges[i].source = id})

\* C23 (as stated): in every snapshot of a successful build no gate node has
\* more outgoing edges than incoming edges.
C23_OutAtMostIn ==
  Finished =>
    \A k \in DOMAIN timestamps :
      \A n \in NodeSet(Snapshot(k)) :
        IsGate(n) =>
          OutDegree(Snapshot(k), n.id) <= InDegree(Snapshot(k), n.id)

(***************************************************************************)
(* The viewer (src/web/graph.js): the time steps of the loaded data, the   *)
(* step on display and the playback timer.  A viewer state is a record of  *)
(* the module-level variables and of the window's interval timers; threw   *)
(* tells that the call that produced it ended with an exception.           *)
(***************************************************************************)
DEFAULT_TIME_STEP == 0

\* one key of an object with the snapshot it holds
Entry(key, nodeCount) == [key |-> key, snapshot |-> <<nodeCount>>]

\* a JavaScript number: a finite one is the fraction n / d in lowest terms
\* with d > 0 (-0 is 0); the values are exact, so a text whose value needs more
\* than the 31 bits of the checker's integers is outside the model
RECURSIVE Gcd(_, _)
Gcd(a, b) == IF b = 0 THEN a ELSE Gcd(b, a % b)

Fraction(n, d) ==
  LET g == Gcd(IF n < 0 THEN -n ELSE n, d)
  IN  [kind |-> "finite", n |-> n \div g, d |-> d \div g]

NaN == [kind |-> "NaN", n |-> 0, d |-> 1]

\* the number an integer literal of the source denotes
NumberOf(i) == Fraction(i, 1)

\* a < b, and a - b < 0 in a comparator, for finite numbers
Less(a, b) == a.n * b.d < b.n * a.d

RECURSIVE Pow10(_)
Pow10(k) == IF k = 0 THEN 1 ELSE 10 * Pow10(k - 1)

HexValue(c) ==
  IF c \in Digits THEN DigitValue(c)
  ELSE CASE c \in {"a","A"} -> 10 [] c \in {"b","B"} -> 11 [] c \in {"c","C"} -> 12
         [] c \in {"d","D"} -> 13 [] c \in {"e","E"} -> 14 [] c \in {"f","F"} -> 15

\* the value of the digits ds in the given radix
RECURSIVE RadixToNat(_, _)
RadixToNat(ds, radix) ==
  IF ds = <<>> THEN 0
  ELSE radix * RadixToNat(SubSeq(ds, 1, Len(ds) - 1), radix) + HexValue(ds[Len(ds)])

\* the number mantissa * 10^scale
Scaled(mantissa, scale) ==
  IF mantissa = 0 THEN NumberOf(0)
  ELSE IF scale >= 0 THEN Fraction(mantissa * Pow10(scale), 1)
  ELSE Fraction(mantissa, Pow10(0 - scale))

\* ExponentPart of s from the e at index fe + 1 to the end of s, after the
\* integer digits s[1..ie] and the fraction digits s[ff..fe]
WithExponent(s, ie, ff, fe, signed) ==
  LET expFrom == IF signed THEN fe + 3 ELSE fe + 2
      ee == RunEnd(s, expFrom, Digits)
      exponent == DecToNat(SubSeq(s, expFrom, ee))
  IN  IF ee < expFrom \/ ee # Len(s) THEN NaN
      ELSE IF signed /\ s[fe + 2] = "-"
      THEN Scaled(DecToNat(SubSeq(s, 1, ie) \o SubSeq(s, ff, fe)), 0 - exponent - (fe - ff + 1))
      ELSE Scaled(DecToNat(SubSeq(s, 1, ie) \o SubSeq(s, ff, fe)), exponent - (fe - ff + 1))

\* what follows the integer digits s[1..ie] and the fraction digits s[ff..fe]:
\* the end of the text or an exponent
AfterFraction(s, ie, ff, fe) ==
  IF ie < 1 /\ fe < ff THEN NaN
  ELSE IF fe = Len(s) THEN Scaled(DecToNat(SubSeq(s, 1, ie) \o SubSeq(s, ff, fe)), 0 - (fe - ff + 1))
  ELSE IF s[fe + 1] \in {"e", "E"}
  THEN WithExponent(s, ie, ff, fe,
                    fe + 2 <= Len(s) /\ s[fe + 2] \in {"+", "-"})
  ELSE NaN

\* what follows the integer digits s[1..ie]: a point and the fraction digits,
\* or nothing
AfterInteger(s, ie) ==
  IF ie + 1 <= Len(s) /\ s[ie + 1] = "."
  THEN AfterFraction(s, ie, ie + 2, RunEnd(s, ie + 2, Digits))
  ELSE AfterFraction(s, ie, ie + 1, ie)

\* StrUnsignedDecimalLiteral but Infinity: digits, a fraction and an exponent,
\* with a digit before or after the point; NaN for any other text
UnsignedDecimal(s) == AfterInteger(s, RunEnd(s, 1, Digits))

\* a prefix 0x, 0b or 0o (of either case) followed by digits of its radix
HasRadixPrefix(t, letters, digits) ==
  /\ Len(t) >= 3 /\ t[1] = "0" /\ t[2] \in letters
  /\ \A i \in 3..Len(t) : t[i] \in digits

\* the number the trimmed text t denotes: 0 for the empty text, else the
\* number of a StrNumericLiteral, else NaN
TrimmedNumber(t) ==
  IF t = <<>> THEN NumberOf(0)
  ELSE IF HasRadixPrefix(t, {"x", "X"},
            Digits \cup {"a","b","c","d","e","f","A","B","C","D","E","F"})
  THEN NumberOf(RadixToNat(SubSeq(t, 3, Len(t)), 16))
  ELSE IF HasRadixPrefix(t, {"b", "B"}, {"0", "1"})
  THEN NumberOf(RadixToNat(SubSeq(t, 3, Len(t)), 2))
  ELSE IF HasRadixPrefix(t, {"o", "O"}, {"0","1","2","3","4","5","6","7"})
  THEN NumberOf(RadixToNat(SubSeq(t, 3, Len(t)), 8))
  ELSE IF t = <<"I","n","f","i","n","i","t","y">>
            \/ t = <<"+","I","n","f","i","n","i","t","y">> THEN [kind |-> "Infinity", n |-> 1, d |-> 1]
  ELSE IF t = <<"-","I","n","f","i","n","i","t","y">> THEN [kind |-> "Infinity", n |-> -1, d |-> 1]
  ELSE IF t[1] = "-" THEN [UnsignedDecimal(Tail(t)) EXCEPT !.n = 0 - @]
  ELSE IF t[1] = "+" THEN UnsignedDecimal(Tail(t))
  ELSE UnsignedDecimal(t)

\* Number(key) for a string: white space is trimmed, the empty string is 0, and
\* the rest is read as a StrNumericLiteral
NumberOfKey(key) == TrimmedNumber(Trim(key))

\* the least k such that d divides 10^k (d is a product of twos and fives)
RECURSIVE DecimalPlaces(_, _)
DecimalPlaces(d, k) == IF Pow10(k) % d = 0 THEN k ELSE DecimalPlaces(d, k + 1)

\* the decimal digits of a fraction with k places after the point: with a
\* point among them, after "0." and zeros, or in exponent form when the number
\* is smaller than 10^-6
PlaceDigits(digits, k) ==
  IF Len(digits) > k
  THEN SubSeq(digits, 1, Len(digits) - k) \o <<".">>
         \o SubSeq(digits, Len(digits) - k + 1, Len(digits))
  ELSE IF k - Len(digits) < 6
  THEN <<"0", ".">> \o [i \in 1..(k - Len(digits)) |-> "0"] \o digits
  ELSE <<digits[1]>>
         \o (IF Len(digits) > 1 THEN <<".">> \o Tail(digits) ELSE <<>>)
         \o <<"e", "-">> \o NatToDec(k - Len(digits) + 1)

\* String(step) for a finite number below 10^21
NumberToString(x) ==
  IF x.d = 1 THEN (IF x.n < 0 THEN <<"-">> \o NatToDec(0 - x.n) ELSE NatToDec(x.n))
  ELSE IF x.n < 0
  THEN <<"-">> \o PlaceDigits(
         NatToDec(((0 - x.n) * Pow10(DecimalPlaces(x.d, 0))) \div x.d),
         DecimalPlaces(x.d, 0))
  ELSE PlaceDigits(NatToDec((x.n * Pow10(DecimalPlaces(x.d, 0))) \div x.d),
                   DecimalPlaces(x.d, 0))

\* .filter(step => Number.isFinite(step))
KeepNumbers(s) == SelectSeq(s, LAMBDA x : x.kind = "finite")

RECURSIVE InsertAscending(_, _)
InsertAscending(s, x) ==
  IF s = <<>> THEN <<x>>
  ELSE IF Less(x, s[1]) THEN <<x>> \o s
  ELSE <<s[1]>> \o InsertAscending(Tail(s), x)

\* .sort((a, b) => a - b)
RECURSIVE SortAscending(_)
SortAscending(s) ==
  IF s = <<>> THEN <<>>
  ELSE InsertAscending(SortAscending(Tail(s)), s[1])

\* a < b for two decimal numerals without leading zeros, compared digit by
\* digit so that numerals beyond the integers of the checker are compared too
NumeralLess(a, b) ==
  \/ Len(a) < Len(b)
  \/ /\ Len(a) = Len(b)
     /\ \E i \in 1..Len(a) :
          /\ DigitValue(a[i]) < DigitValue(b[i])
          /\ \A j \in 1..(i - 1) : a[j] = b[j]

\* the key is an integer index: a decimal numeral without a leading zero that
\* is at most 2^32 - 2
IsIntegerIndex(key) ==
  /\ Len(key) >= 1
  /\ \A i \in 1..Len(key) : key[i] \in Digits
  /\ key[1] = "0" => Len(key) = 1
  /\ ~NumeralLess(<<"4","2","9","4","9","6","7","2","9","4">>, key)

\* Object.keys(data): the integer indices in ascending order, then the other
\* keys in the order of the file
ObjectKeys(data) ==
  LET keys == [i \in 1..Len(data.entries) |-> data.entries[i].key]
      indices == {key \in {keys[i] : i \in 1..Len(keys)} : IsIntegerIndex(key)}
      others == SelectSeq(keys, LAMBDA key : ~IsIntegerIndex(key))
  IN  [i \in 1..Cardinality(indices) |->
         CHOOSE key \in indices :
           Cardinality({smaller \in indices : NumeralLess(smaller, key)}) = i - 1]
        \o others

\* Object.keys(data).map(key => Number(key))
KeyNumbers(data) ==
  LET keys == ObjectKeys(data)
  IN  [i \in 1..Len(keys) |-> NumberOfKey(keys[i])]

\* getTimeSteps
getTimeSteps(data) ==
  IF data.kind # "object" THEN <<>>
  ELSE SortAscending(KeepNumbers(KeyNumbers(data)))

\* availableTimeSteps.includes(step)
IncludesStep(steps, step) == \E i \in 1..Len(steps) : steps[i] = step

\* availableTimeSteps.indexOf(step), counted from 0; -1 when absent
IndexOf(steps, step) ==
  IF IncludesStep(steps, step)
  THEN (CHOOSE i \in 1..Len(steps) :
          steps[i] = step /\ \A j \in 1..(i - 1) : steps[j] # step) - 1
  ELSE -1

\* getTimeStepData: <<>> for null, else <<n>> with n the number of nodes of the
\* snapshot stored under String(step)
getTimeStepData(data, step) ==
  IF data.kind # "object" THEN <<>>
  ELSE IF \E i \in 1..Len(data.entries) :
            data.entries[i].key = NumberToString(step)
  THEN data.entries[CHOOSE i \in 1..Len(data.entries) :
                      data.entries[i].key = NumberToString(step)].snapshot
  ELSE <<>>

\* renderTimeStep with renderGraph: TRUE when it throws "Graph data is missing
\* nodes."
renderTimeStepThrows(data, step) ==
  LET timestepData == getTimeStepData(data, step)
  IN  timestepData # <<>> /\ timestepData[1] = 0

\* the viewer state now
Viewer ==
  [cachedGraphData |-> cachedGraphData,
   availableTimeSteps |-> availableTimeSteps,
   currentTimeStep |-> currentTimeStep,
   animationTimerId |-> animationTimerId,
   intervals |-> intervals,
   timerSeq |-> timerSeq,
   sliderListening |-> sliderListening,
   threw |-> FALSE]

\* isAnimationActive
isAnimationActive(v) == v.animationTimerId # <<>>

\* pauseAnimation without window.clearInterval
pauseAnimationKeepInterval(v) ==
  IF ~isAnimationActive(v) THEN v ELSE [v EXCEPT !.animationTimerId = <<>>]

\* pauseAnimation: window.clearInterval(animationTimerId); animationTimerId = null
pauseAnimation(v) ==
  IF ~isAnimationActive(v) THEN v
  ELSE [v EXCEPT !.intervals = @ \ {v.animationTimerId[1]},
                 !.animationTimerId = <<>>]

\* setCurrentTimeStep
setCurrentTimeStep(v, step) ==
  IF ~IncludesStep(v.availableTimeSteps, step) THEN v
  ELSE [v EXCEPT !.currentTimeStep = <<step>>,
                 !.threw = \E data \in {v.cachedGraphData}, shown \in {step} :
                             renderTimeStepThrows(data, shown)]

\* updatePlayButtonAvailability
updatePlayButtonAvailability(v) ==
  IF Len(v.availableTimeSteps) <= 1 THEN pauseAnimation(v) ELSE v

\* initializeGraphFromData; its setupTimeSlider makes handleTimeSliderInput the
\* input listener of the slider and calls updatePlayButtonAvailability
initializeGraphFromData(v, graphData) ==
  LET loaded == [v EXCEPT !.cachedGraphData = graphData,
                          !.availableTimeSteps = getTimeSteps(graphData)]
      paused == [pauseAnimation(loaded) EXCEPT !.currentTimeStep = <<>>]
      reset == [paused EXCEPT !.sliderListening = TRUE]
      initialStep ==
        IF IncludesStep(loaded.availableTimeSteps, NumberOf(DEFAULT_TIME_STEP))
        THEN NumberOf(DEFAULT_TIME_STEP)
        ELSE loaded.availableTimeSteps[1]
      shown == setCurrentTimeStep(updatePlayButtonAvailability(reset), initialStep)
  IN  IF Len(loaded.availableTimeSteps) = 0 THEN [loaded EXCEPT !.threw = TRUE]
      ELSE IF shown.threw THEN shown
      ELSE updatePlayButtonAvailability(shown)

\* getNextTimeStep: <<>> for null
getNextTimeStep(steps, step) ==
  IF Len(steps) = 0 THEN <<>>
  ELSE LET currentIndex == IndexOf(steps, step)
           nextIndex == IF currentIndex >= 0
                        THEN (currentIndex + 1) % Len(steps)
                        ELSE 0
       IN  <<steps[nextIndex + 1]>>

\* advanceToNextTimeStep
advanceToNextTimeStep(v) ==
  IF Len(v.availableTimeSteps) = 0 THEN pauseAnimation(v)
  ELSE LET from == IF v.currentTimeStep # <<>> THEN v.currentTimeStep[1]
                   ELSE v.availableTimeSteps[1]
           nextStep == getNextTimeStep(v.availableTimeSteps, from)
       IN  IF nextStep # <<>> THEN setCurrentTimeStep(v, nextStep[1]) ELSE v

\* startAnimation
startAnimation(v) ==
  IF isAnimationActive(v) \/ Len(v.availableTimeSteps) <= 1 THEN v
  ELSE LET shown == IF v.currentTimeStep = <<>>
                    THEN setCurrentTimeStep(v, v.availableTimeSteps[1])
                    ELSE v
       IN  IF shown.threw THEN shown
           ELSE [shown EXCEPT !.timerSeq = @ + 1,
                              !.intervals = @ \cup {shown.timerSeq + 1},
                              !.animationTimerId = <<shown.timerSeq + 1>>]

\* toggleAnimation
toggleAnimation(v) ==
  IF isAnimationActive(v) THEN pauseAnimation(v) ELSE startAnimation(v)

\* handleTimeSliderInput with event.target.value = index
handleTimeSliderInput(v, index) ==
  IF index < 0 \/ index >= Len(v.availableTimeSteps) THEN v
  ELSE setCurrentTimeStep(pauseAnimation(v), v.availableTimeSteps[index + 1])
\* the timers, slider positions and files the viewer is driven with
MaxTimers == 3
MaxSliderIndex == 4

\* {}
JsonEmptyObject == [kind |-> "object", id |-> <<"e">>, entries |-> <<>>]

\* {"0": {"nodes": [2 nodes], ...}}
JsonSingleStep ==
  [kind |-> "object", id |-> <<"s">>, entries |-> <<Entry(<<"0">>, 2)>>]

\* {"3": {1 node}, "1": {2 nodes}, "meta": {no nodes}, "2": {2 nodes}}
JsonSteps ==
  [kind |-> "object", id |-> <<"t">>,
   entries |-> <<Entry(<<"3">>, 1), Entry(<<"1">>, 2),
                 Entry(<<"m","e","t","a">>, 0), Entry(<<"2">>, 2)>>]

\* {"0": {"nodes": [], "edges": []}, "1": {1 node}}
JsonMissingNodes ==
  [kind |-> "object", id |-> <<"m">>,
   entries |-> <<Entry(<<"0">>, 0), Entry(<<"1">>, 1)>>]

\* {"1e1": {1 node}, "-1": {2 nodes}, "Infinity": {1 node}, " 1.5": {1 node},
\*  "0.25": {1 node}}
JsonNumberKeys ==
  [kind |-> "object", id |-> <<"n">>,
   entries |-> <<Entry(<<"1","e","1">>, 1), Entry(<<"-","1">>, 2),
                 Entry(<<"I","n","f","i","n","i","t","y">>, 1),
                 Entry(<<" ","1",".","5">>, 1), Entry(<<"0",".","2","5">>, 1)>>]

\* {"1": {1 node}, "1.0": {2 nodes}, "2": {1 node}}: two keys are numerals of
\* the same number
JsonEqualKeys ==
  [kind |-> "object", id |-> <<"d">>,
   entries |-> <<Entry(<<"1">>, 1), Entry(<<"1",".","0">>, 2),
                 Entry(<<"2">>, 1)>>]

\* the files: the first is one on which JSON.parse throws, or a fetch that
\* fails
JsonFiles ==
  {[kind |-> "invalid", id |-> <<"i">>, entries |-> <<>>],
   NullData, JsonEmptyObject, JsonSingleStep, JsonSteps, JsonMissingNodes,
   JsonNumberKeys, JsonEqualKeys}

QasmFiles ==
  { <<" ", "\f", "\n">>,
    ExampleInput,
    JoinLines(<<LnQregQ2, LnRz, LnCu, LnU>>),
    JoinLines(<<LnOpenqasm>>),
    JoinLines(<<LnQregQ2, LnH, LnUnknown>>),
    JoinLines(<<LnQregQ1>>) }

\* the variables of the parser a QASM upload runs
parserVars ==
  <<parser, qasmText, qasmCode, pc, lines, pos, bits, gateIdCounter, graphs,
    timestamps, lineCounter, gates, links, returned, thrown, accepted,
    changedAt, calls>>

\* no conversion is running: the handlers of the viewer run one at a time, and
\* a QASM upload runs its parser to the end before the next handler starts
ParserIdle ==
  /\ parser = "QasmParser" /\ pc = "idle"
  /\ qasmText = <<>> /\ qasmCode = <<>> /\ lines = <<>> /\ pos = 1
  /\ bits = <<>> /\ gateIdCounter = 0 /\ graphs = <<>> /\ timestamps = <<>>
  /\ lineCounter = 0 /\ gates = <<>> /\ links = <<>> /\ returned = <<>>
  /\ thrown = <<>> /\ accepted = <<>> /\ changedAt = {}

\* the parser of a finished conversion is dropped
DropParser ==
  /\ parser' = "QasmParser" /\ pc' = "idle"
  /\ qasmText' = <<>> /\ qasmCode' = <<>> /\ lines' = <<>> /\ pos' = 1
  /\ bits' = <<>> /\ gateIdCounter' = 0 /\ graphs' = <<>>
  /\ timestamps' = <<>> /\ lineCounter' = 0 /\ gates' = <<>>
  /\ links' = <<>> /\ returned' = <<>> /\ thrown' = <<>>
  /\ accepted' = <<>> /\ changedAt' = {}

\* the viewer's variables after a handler that leaves the state v
SetViewer(v, handler, outcome) ==
  /\ cachedGraphData' = v.cachedGraphData
  /\ availableTimeSteps' = v.availableTimeSteps
  /\ currentTimeStep' = v.currentTimeStep
  /\ animationTimerId' = v.animationTimerId
  /\ intervals' = v.intervals
  /\ timerSeq' = v.timerSeq
  /\ sliderListening' = v.sliderListening
  /\ lastEvent' = [handler |-> handler, outcome |-> outcome,
                   turn |-> 1 - lastEvent.turn]

\* try/catch around a call that leaves v
TryOutcome(v) == IF v.threw THEN "catch" ELSE "ok"

\* the handlers are registered and none is running
Ready == uiPhase = "ready" /\ pc = "idle"

\* boot: loadGraphData and initializeGraphFromData in its try block, then the
\* registration of the handlers
boot ==
  /\ uiPhase = "boot" /\ pc = "idle"
  /\ \E file \in JsonFiles :
       LET v == IF file.kind = "invalid" THEN [Viewer EXCEPT !.threw = TRUE]
                ELSE initializeGraphFromData(Viewer, file)
       IN  SetViewer(v, "boot", TryOutcome(v))
  /\ uiPhase' = "ready"
  /\ UNCHANGED resizeFrame
  /\ UNCHANGED parserVars

\* handleFileUpload: reader.onload on the text of the chosen file
handleFileUpload ==
  /\ Ready
  /\ \E file \in JsonFiles :
       LET v == IF file.kind = "invalid" THEN [Viewer EXCEPT !.threw = TRUE]
                ELSE initializeGraphFromData(Viewer, file)
       IN  SetViewer(v, "handleFileUpload", TryOutcome(v))
  /\ UNCHANGED <<resizeFrame, uiPhase>>
  /\ UNCHANGED parserVars

\* handleQasmUpload: reader.onload up to `new QasmParser(qasmText)`, or to the
\* catch branch when the text is blank
handleQasmUpload ==
  /\ Ready
  /\ \E text \in QasmFiles :
       IF Trim(text) = <<>>
       THEN /\ SetViewer(Viewer, "handleQasmUpload", "catch")
            /\ UNCHANGED parserVars
       ELSE /\ parser' = "QasmParser"
            /\ qasmText' = text
            /\ lines' = getSanitizedLines(text)
            /\ pc' = "parse"
            /\ UNCHANGED <<qasmCode, pos, bits, gateIdCounter, graphs,
                           timestamps, lineCounter, gates, links, returned,
                           thrown, accepted, changedAt, calls>>
            /\ UNCHANGED <<cachedGraphData, availableTimeSteps,
                           currentTimeStep, animationTimerId, intervals,
                           timerSeq, sliderListening, lastEvent>>
  /\ UNCHANGED <<resizeFrame, uiPhase>>

\* the ascending sequence of the numbers of a finite set
RECURSIVE AscendingOf(_)
AscendingOf(S) ==
  IF S = {} THEN <<>>
  ELSE LET least == CHOOSE x \in S : \A y \in S : x <= y
       IN  <<least>> \o AscendingOf(S \ {least})

\* the value parse() returned, as the viewer reads it: an object with one key
\* per time-key, integer keys being enumerated in ascending order
GraphJson ==
  LET keys == AscendingOf(DOMAIN returned[1])
  IN  [kind |-> "object", id |-> qasmText,
       entries |-> [i \in 1..Len(keys) |->
                      Entry(NatToDec(keys[i]), Len(returned[1][keys[i]].nodes))]]

\* handleQasmUpload: reader.onload from the return of convertQasmToGraphJson,
\* or from its exception, to the end
handleQasmUploadReturn ==
  /\ uiPhase = "ready" /\ parser = "QasmParser" /\ pc \in {"returned", "thrown"}
  /\ LET v == IF pc = "thrown" THEN [Viewer EXCEPT !.threw = TRUE]
              ELSE initializeGraphFromData(Viewer, GraphJson)
     IN  SetViewer(v, "handleQasmUpload", TryOutcome(v))
  /\ DropParser
  /\ UNCHANGED <<resizeFrame, uiPhase, calls>>

\* the input event of the slider, once setupTimeSlider has added the listener
timeSliderInput ==
  /\ Ready
  /\ sliderListening
  /\ \E index \in 0..MaxSliderIndex :
       LET v == handleTimeSliderInput(Viewer, index)
       IN  SetViewer(v, "handleTimeSliderInput",
                     IF v.threw THEN "throw" ELSE "ok")
  /\ UNCHANGED <<resizeFrame, uiPhase>>
  /\ UNCHANGED parserVars

\* the click on the play button
playToggleClick ==
  /\ Ready
  /\ isAnimationActive(Viewer) \/ timerSeq < MaxTimers
  /\ LET v == toggleAnimation(Viewer)
     IN  SetViewer(v, "toggleAnimation", IF v.threw THEN "throw" ELSE "ok")
  /\ UNCHANGED <<resizeFrame, uiPhase>>
  /\ UNCHANGED parserVars

\* the callback of an interval timer that is set and not cleared
intervalTick ==
  /\ Ready
  /\ \E id \in intervals : \E v \in {advanceToNextTimeStep(Viewer)} :
       SetViewer(v, "advanceToNextTimeStep", IF v.threw THEN "throw" ELSE "ok")
  /\ UNCHANGED <<resizeFrame, uiPhase>>
  /\ UNCHANGED parserVars

\* the visibilitychange listener
visibilityChange ==
  /\ Ready
  /\ \E hidden \in BOOLEAN :
       LET v == IF hidden THEN pauseAnimation(Viewer) ELSE Viewer
       IN  SetViewer(v, "visibilitychange", "ok")
  /\ UNCHANGED <<resizeFrame, uiPhase>>
  /\ UNCHANGED parserVars

\* handleResize
handleResize ==
  /\ Ready
  /\ resizeFrame' = IF resizeFrame # <<>> THEN resizeFrame ELSE <<1>>
  /\ SetViewer(Viewer, "handleResize", "ok")
  /\ UNCHANGED uiPhase
  /\ UNCHANGED parserVars

\* the animation frame handleResize asked for
resizeFrameCallback ==
  /\ Ready
  /\ resizeFrame # <<>>
  /\ resizeFrame' = <<>>
  /\ SetViewer(Viewer, "resizeFrame",
               IF /\ currentTimeStep # <<>>
                  /\ renderTimeStepThrows(cachedGraphData, currentTimeStep[1])
               THEN "throw" ELSE "ok")
  /\ UNCHANGED uiPhase
  /\ UNCHANGED parserVars

InitUI ==
  /\ ParserIdle
  /\ calls = <<>>
  /\ ViewerLoaded

NextUI ==
  \/ boot
  \/ handleFileUpload
  \/ handleQasmUpload
  \/ extractBits
  \/ buildGraphStart
  \/ buildGraphSkip
  \/ buildGraphSingleParam
  \/ buildGraphTwoParam
  \/ buildGraphSingle
  \/ buildGraphTwo
  \/ buildGraphMeasure
  \/ buildGraphNoMatch
  \/ parseReturn
  \/ handleQasmUploadReturn
  \/ timeSliderInput
  \/ playToggleClick
  \/ intervalTick
  \/ visibilityChange
  \/ handleResize
  \/ resizeFrameCallback

SpecUI == InitUI /\ [][NextUI]_vars

\* the viewer driven by every handler but the QASM upload, whose data reach
\* the viewer through the initializeGraphFromData the JSON upload calls
NextPlayback ==
  \/ boot
  \/ handleFileUpload
  \/ timeSliderInput
  \/ playToggleClick
  \/ intervalTick
  \/ visibilityChange
  \/ handleResize
  \/ resizeFrameCallback

\* the viewer in a window that runs the callback of an interval timer again
\* and again for as long as the timer is set
SpecPlayback == InitUI /\ [][NextPlayback]_vars /\ WF_vars(intervalTick)


(***************************************************************************)
(* Properties of the viewer.                                               *)
(***************************************************************************)
\* the step has just been made by the callback of an interval timer
TickStep ==
  lastEvent' # lastEvent /\ lastEvent'.handler = "advanceToNextTimeStep"

\* the step that follows step in ascending numeric order, the smallest one
\* following the largest
NextLarger(steps, step) ==
  LET all == {steps[i] : i \in 1..Len(steps)}
      larger == {x \in all : Less(step, x)}
  IN  IF larger # {} THEN CHOOSE x \in larger : \A y \in larger : ~Less(y, x)
      ELSE CHOOSE x \in all : \A y \in all : ~Less(y, x)

\* the time steps of the files the viewer is driven with
PlaybackSteps ==
  UNION {{getTimeSteps(f)[i] : i \in 1..Len(getTimeSteps(f))} : f \in JsonFiles}

\* C21 (as stated): a timer tick while the animation is active moves currentTimeStep to the
\* next larger available time step, from the largest to the smallest; and under
\* fair ticking every available time step is the current one again and again
\* for as long as the animation is active.
C21_CyclicPlayback ==
  /\ [][(/\ TickStep
          /\ animationTimerId # <<>>
          /\ availableTimeSteps # <<>>
          /\ currentTimeStep # <<>>)
          => currentTimeStep' =
               <<NextLarger(availableTimeSteps, currentTimeStep[1])>>]_vars
  /\ \A s \in PlaybackSteps :
       []<>(\/ animationTimerId = <<>>
            \/ ~IncludesStep(availableTimeSteps, s)
            \/ currentTimeStep = <<s>>)

\* C24 (as stated): after any sequence of viewer events currentTimeStep is null
\* or one of availableTimeSteps, and availableTimeSteps is the set of the
\* numeric keys of cachedGraphData in ascending order.
C24_ViewerConsistent ==
  pc = "idle" =>
    /\ currentTimeStep = <<>>
         \/ IncludesStep(availableTimeSteps, currentTimeStep[1])
    /\ \A i \in 1..Len(cachedGraphData.entries) :
         NumberOfKey(cachedGraphData.entries[i].key).kind = "finite" =>
           IncludesStep(availableTimeSteps,
                        NumberOfKey(cachedGraphData.entries[i].key))
    /\ \A i \in 1..Len(availableTimeSteps) :
         /\ \E j \in 1..Len(cachedGraphData.entries) :
              NumberOfKey(cachedGraphData.entries[j].key) = availableTimeSteps[i]
         /\ i > 1 => Less(availableTimeSteps[i - 1], availableTimeSteps[i])
\* C25 (as stated): an upload that ends in the catch branch of handleFileUpload
\* or of handleQasmUpload leaves cachedGraphData, availableTimeSteps,
\* currentTimeStep and the animation timer as they were before it.
C25_FailedUploadKeepsState ==
  [][(/\ lastEvent' # lastEvent
      /\ lastEvent'.handler \in {"handleFileUpload", "handleQasmUpload"}
      /\ lastEvent'.outcome = "catch")
      => UNCHANGED <<cachedGraphData, availableTimeSteps, currentTimeStep,
                     animationTimerId, intervals>>]_vars
\* C26 (as stated): whenever the animation timer is active, availableTimeSteps
\* has at least two elements.
C26_ActiveNeedsTwoSteps ==
  animationTimerId # <<>> => Len(availableTimeSteps) >= 2
\* C27: at most one interval timer is set at any time, and it is the one
\* animationTimerId names; setInterval is called only when no interval is
\* set; and a timer tick is made only while the animation is active, so none
\* advances the time step after pauseAnimation.
C27_OneTimer ==
  /\ [](/\ Cardinality(intervals) <= 1
        /\ intervals = {animationTimerId[i] : i \in 1..Len(animationTimerId)})
  /\ [][(timerSeq' # timerSeq => intervals = {})
        /\ (TickStep => animationTimerId # <<>>)]_vars

\* the animation runs on its second interval, the first one having been
\* cleared, and a tick has advanced the time step
C27_Witness ==
  /\ timerSeq >= 2
  /\ animationTimerId = <<timerSeq>>
  /\ intervals = {timerSeq}
  /\ lastEvent.handler = "advanceToNextTimeStep"
=============================================================================
